---- MODULE Spec2Model ----
(***************************************************************************)
(* Model of the tradingui proxy (src/src/tradingui/api.py): the            *)
(* /api/download pipeline - Basic authentication, the sliding-window rate  *)
(* limiter, the file cache with TTL and atomic replace, the upstream fetch *)
(* (src/src/tradingui/fetcher.py) and the degraded fallback - served by    *)
(* concurrent worker threads.                                              *)
(*                                                                         *)
(* Strings are sequences of one-character strings; None and '' are both    *)
(* the empty sequence (the code only tests optional strings for truth).    *)
(* Times are whole clock ticks.                                            *)
(***************************************************************************)
EXTENDS Integers, Sequences, FiniteSets, TLC

(* ------------------------------ bounds -------------------------------- *)
\* worker threads serving requests concurrently
NThreads == 2
\* last tick of the wall clock
MaxClock == 3
\* .csv files the desktop side may save into fetcher.DATA_DIR
MaxSaved == 1
\* characters of a username and of a password given to the web client
MaxCred == 2
\* characters of a ticker typed into the desktop GUI
MaxTicker == 3
\* pieces (a name, a slash, two dots) of a parameter value of a request
MaxPieces == 5


(* ------------------------------ strings ------------------------------- *)
\* the ASCII letters
UpperLetters ==
    <<"A", "B", "C", "D", "E", "F", "G", "H", "I", "J", "K", "L", "M",
      "N", "O", "P", "Q", "R", "S", "T", "U", "V", "W", "X", "Y", "Z">>
LowerLetters ==
    <<"a", "b", "c", "d", "e", "f", "g", "h", "i", "j", "k", "l", "m",
      "n", "o", "p", "q", "r", "s", "t", "u", "v", "w", "x", "y", "z">>

\* str.lower() on one character
LowerChar(c) ==
    IF \E i \in 1..26 : UpperLetters[i] = c
    THEN LowerLetters[CHOOSE i \in 1..26 : UpperLetters[i] = c]
    ELSE c

\* str.lower()
Lower(s) == [i \in 1..Len(s) |-> LowerChar(s[i])]

\* str.upper() on one character
UpperChar(c) ==
    IF \E i \in 1..26 : LowerLetters[i] = c
    THEN UpperLetters[CHOOSE i \in 1..26 : LowerLetters[i] = c]
    ELSE c

\* str.upper()
Upper(s) == [i \in 1..Len(s) |-> UpperChar(s[i])]

\* s.startswith(pre)
StartsWith(s, pre) ==
    /\ Len(s) >= Len(pre)
    /\ \A j \in 1..Len(pre) : s[j] = pre[j]

\* str.strip(): leading and trailing blanks removed
RECURSIVE Strip(_)
Strip(s) ==
    IF s = << >> THEN << >>
    ELSE IF Head(s) = " " THEN Strip(Tail(s))
    ELSE IF s[Len(s)] = " " THEN Strip(SubSeq(s, 1, Len(s) - 1))
    ELSE s

\* code point order of the characters used (Python compares str by code point)
Ord(c) ==
    CASE c = " " -> 32
      [] c = "." -> 46
      [] c = "/" -> 47
      [] c \in {"0", "1", "2", "3", "4", "5", "6", "7", "8", "9"} ->
            48 + (CHOOSE n \in 0..9 : c = <<"0", "1", "2", "3", "4", "5", "6", "7", "8", "9">>[n + 1])
      [] c = ":" -> 58
      [] c = "A" -> 65
      [] c = "B" -> 66
      [] c = "C" -> 67
      [] c = "_" -> 95
      [] c = "a" -> 97
      [] c = "b" -> 98
      [] c = "c" -> 99
      [] c = "e" -> 101
      [] c = "l" -> 108
      [] c = "m" -> 109
      [] c = "o" -> 111
      [] c = "p" -> 112
      [] c = "s" -> 115
      [] c = "t" -> 116
      [] c = "u" -> 117
      [] c = "v" -> 118
      [] c = "x" -> 120
      [] OTHER -> 233

\* a character outside ASCII (code point > 127)
IsAscii(c) == Ord(c) < 128

\* str < str, as sorted() compares names
RECURSIVE StrLess(_, _)
StrLess(a, b) ==
    IF b = << >> THEN FALSE
    ELSE IF a = << >> THEN TRUE
    ELSE IF Head(a) = Head(b) THEN StrLess(Tail(a), Tail(b))
    ELSE Ord(Head(a)) < Ord(Head(b))

\* sub in s
Contains(s, sub) ==
    \E i \in 0..(Len(s) - Len(sub)) :
        \A j \in 1..Len(sub) : s[i + j] = sub[j]

\* s.endswith(suf)
EndsWith(s, suf) ==
    /\ Len(s) >= Len(suf)
    /\ \A j \in 1..Len(suf) : s[Len(s) - Len(suf) + j] = suf[j]

\* s.replace(c, r) for a one-character c
RECURSIVE ReplaceChar(_, _, _)
ReplaceChar(s, c, r) ==
    IF s = << >> THEN << >>
    ELSE (IF Head(s) = c THEN r ELSE <<Head(s)>>) \o ReplaceChar(Tail(s), c, r)

\* index of the first c in s, 0 when absent
FirstIndex(s, c) ==
    IF \E i \in 1..Len(s) : s[i] = c
    THEN CHOOSE i \in 1..Len(s) : s[i] = c /\ \A j \in 1..(i - 1) : s[j] # c
    ELSE 0

\* the decimal digit of a clock tick, as a character
Digit(n) == <<"0", "1", "2", "3", "4", "5", "6", "7", "8", "9">>[(n % 10) + 1]

DotCsv == <<".", "c", "s", "v">>
DotTmp == <<".", "t", "m", "p">>
Latest == <<"l", "a", "t", "e", "s", "t">>

(* --------------------------- authentication --------------------------- *)
\* HTTPException / PlainTextResponse as the client sees it.  headers: the
\* WWW-Authenticate value ("" when absent) and Retry-After (<<n>>, << >> when absent)
Response(status, msg, symbol, exc, www, retry, body) ==
    [status |-> status,
     detail |-> [msg |-> msg, symbol |-> symbol, exc |-> exc],
     headers |-> [www_authenticate |-> www, retry_after |-> retry],
     body |-> body]

NoResponse == Response(0, "", << >>, "", "", << >>, << >>)
Http401(msg) == Response(401, msg, << >>, "", "Basic", << >>, << >>)
\* an exception no handler catches: the framework answers 500
Http500 == Response(500, "Internal Server Error", << >>, "", "", << >>, << >>)
Http200(csv_text) == Response(200, "", << >>, "", "", << >>, csv_text)
\* the JSON answer of health(): {'status': 'ok'}, 200
HealthOk == Response(200, "", << >>, "", "", << >>, [status |-> "ok"])

\* The Authorization header: scheme is the text before the first space ("" when
\* the header is absent or empty), decodes says whether the token base64- and
\* utf-8-decodes, text is the decoded token.
Header(scheme, decodes, text) == [scheme |-> scheme, decodes |-> decodes, text |-> text]
NoHeader == Header("", FALSE, << >>)

\* auth.lower() on the scheme
LowerScheme(s) == IF s \in {"Basic", "basic", "BASIC"} THEN "basic" ELSE s

\* secrets.compare_digest on two str: TypeError unless both are ASCII
CompareDigest(a, b) ==
    IF \A i \in 1..Len(a) : IsAscii(a[i])
       THEN IF \A i \in 1..Len(b) : IsAscii(b[i])
            THEN (IF a = b THEN "true" ELSE "false")
            ELSE "TypeError"
       ELSE "TypeError"

\* the results of _verify_basic: kind "user" (admitted as user), "http"
\* (HTTPException resp) or "crash" (an exception that is not an HTTPException)
Anonymous == <<"a", "n", "o", "n", "y", "m", "o", "u", "s">>
Admitted(user) == [kind |-> "user", user |-> user, resp |-> NoResponse]
Rejected(resp) == [kind |-> "http", user |-> << >>, resp |-> resp]
Crashed == [kind |-> "crash", user |-> << >>, resp |-> Http500]

\* a slip in CheckCredential: the detail names the field that was wrong
CheckCredential_naming(auth_user, auth_pass, username, password) ==
    LET cu == CompareDigest(username, auth_user)
        cp == CompareDigest(password, auth_pass)
    IN  IF cu = "TypeError" \/ (cu = "true" /\ cp = "TypeError") THEN Crashed
        ELSE IF cu # "true" THEN Rejected(Http401("Invalid username"))
        ELSE IF cp # "true" THEN Rejected(Http401("Invalid password"))
        ELSE Admitted(username)

\* _verify_basic, the comparison: compare_digest(username, _AUTH_USER) and
\* compare_digest(password, _AUTH_PASS); the second is not evaluated when the
\* first is False
CheckCredential(auth_user, auth_pass, username, password) ==
    LET cu == CompareDigest(username, auth_user)
        cp == CompareDigest(password, auth_pass)
    IN  IF cu = "TypeError" \/ (cu = "true" /\ cp = "TypeError") THEN Crashed
        ELSE IF ~(cu = "true" /\ cp = "true")
        THEN Rejected(Http401("Invalid authentication credentials"))
        ELSE Admitted(username)

\* _verify_basic, the header: the scheme test, the decoding, the split at the
\* first ':'
CheckHeader(auth_user, auth_pass, hdr) ==
    IF hdr.scheme = "" \/ LowerScheme(hdr.scheme) # "basic"
    THEN Rejected(Http401("Not authenticated"))
    ELSE IF ~hdr.decodes \/ FirstIndex(hdr.text, ":") = 0
    THEN Rejected(Http401("Invalid authentication format"))
    ELSE LET k == FirstIndex(hdr.text, ":")
         IN  CheckCredential(auth_user, auth_pass,
                             SubSeq(hdr.text, 1, k - 1), SubSeq(hdr.text, k + 1, Len(hdr.text)))

\* a slip in _verify_basic: authentication is on when either variable is set
_verify_basic_either(auth_user, auth_pass, hdr) ==
    IF ~(auth_user # << >> \/ auth_pass # << >>)
    THEN Admitted(Anonymous)
    ELSE CheckHeader(auth_user, auth_pass, hdr)

\* _verify_basic
_verify_basic(auth_user, auth_pass, hdr) ==
    IF ~(auth_user # << >> /\ auth_pass # << >>)
    THEN Admitted(Anonymous)
    ELSE CheckHeader(auth_user, auth_pass, hdr)

(* ------------------------------- cache -------------------------------- *)
\* _cache_filename: the file name below _CACHE_DIR
_cache_filename(symbol, start, end, period, interval) ==
    LET safe == ReplaceChar(ReplaceChar(symbol, "/", << >>), " ", <<"_">>)
        tag == IF period # << >> THEN period ELSE IF start # << >> THEN start ELSE Latest
        end_tag == IF end # << >> THEN <<"_">> \o end ELSE << >>
        interval_tag == IF interval # << >> THEN <<"_">> \o interval ELSE << >>
    IN  safe \o <<"_">> \o tag \o end_tag \o interval_tag \o DotCsv

\* the table the provider holds for a query, in revision v: two rows
Table(symbol, start, end, period, interval, v) ==
    << [q |-> <<symbol, start, end, period, interval>>, v |-> v, row |-> 1],
       [q |-> <<symbol, start, end, period, interval>>, v |-> v, row |-> 2] >>

CsvHeader == [q |-> << >>, v |-> 0, row |-> 0]

\* the characters '\n' and '\r' of a text (a text is a sequence of cells and of
\* these two)
LF == [q |-> << >>, v |-> 0, row |-> -1]
CR == [q |-> << >>, v |-> 0, row |-> -2]

\* os.linesep of the platforms
Posix == <<LF>>
Windows == <<CR, LF>>

\* DataFrame.to_csv() to a string: the header line, then one line per row, each
\* ended by lineterminator, which defaults to os.linesep
RECURSIVE JoinLines(_, _)
JoinLines(lines, linesep) ==
    IF lines = << >> THEN << >>
    ELSE <<Head(lines)>> \o linesep \o JoinLines(Tail(lines), linesep)

to_csv(df, linesep) == JoinLines(<<CsvHeader>> \o df, linesep)

\* fh.write(text) on a file opened with open(path, 'w'): text mode writes
\* os.linesep for every '\n'
RECURSIVE WriteText(_, _)
WriteText(text, linesep) ==
    IF text = << >> THEN << >>
    ELSE (IF Head(text) = LF THEN linesep ELSE <<Head(text)>>) \o WriteText(Tail(text), linesep)

\* fh.read() on a file opened with open(path, 'r'): universal newlines, '\r\n'
\* and '\r' are read as '\n'
RECURSIVE ReadText(_)
ReadText(data) ==
    IF data = << >> THEN << >>
    ELSE IF Head(data) = CR
    THEN <<LF>> \o ReadText(IF Len(data) > 1 /\ data[2] = LF THEN Tail(Tail(data)) ELSE Tail(data))
    ELSE <<Head(data)>> \o ReadText(Tail(data))

\* a slip in the choice of the candidate: sorted(files)[0]
LastSorted_first(files) == CHOOSE f \in files : \A g \in files : g = f \/ StrLess(f, g)

\* sorted(files)[-1]: the lexicographically last name
LastSorted(files) == CHOOSE f \in files : \A g \in files : g = f \/ StrLess(g, f)

(* ------------------------------ upstream ------------------------------ *)
\* fetcher.fetch_data(..., save=False) given what the provider does ("ok" with
\* revision v, "empty" or "error"): raised with the exception text, or the table
fetch_data(yf, symbol, start, end, period, interval, provider, v) ==
    IF ~yf
    THEN [raised |-> TRUE, exc |-> "yfinance is not available in this environment", df |-> << >>]
    ELSE IF provider = "error"
    THEN [raised |-> TRUE, exc |-> "network unreachable", df |-> << >>]
    ELSE IF provider = "empty"
    THEN [raised |-> TRUE, exc |-> "No data returned", df |-> << >>]
    ELSE [raised |-> FALSE, exc |-> "", df |-> Table(symbol, start, end, period, interval, v)]

\* the name fetch_data(save=True) gives the file it saves at time now
SavedName(symbol, now) ==
    ReplaceChar(ReplaceChar(symbol, "/", << >>), " ", <<"_">>) \o <<"_", Digit(now)>> \o DotCsv

(* ---------------------------- rate limiter ---------------------------- *)
\* a slip in the identity: one bucket for every request
ClientIp_shared(host) == "unknown"

\* ip = request.client.host, or 'unknown'
ClientIp(host) == IF host = "" THEN "unknown" ELSE host

\* a slip in the pruning: nothing is removed
Prune_nothing(ts_list, now, window) == ts_list

\* [t for t in ts_list if t > now - _RATE_LIMIT_WINDOW]
RECURSIVE Prune(_, _, _)
Prune(ts_list, now, window) ==
    IF ts_list = << >> THEN << >>
    ELSE (IF Head(ts_list) > now - window THEN <<Head(ts_list)>> ELSE << >>)
         \o Prune(Tail(ts_list), now, window)

\* int(_RATE_LIMIT_WINDOW - (now - ts_list[0]))
RetryAfter(ts_list, now, window) == window - (now - ts_list[1])

\* a slip in the 429: no Retry-After header
Http429_bare(retry_after) ==
    Response(429, "Too many requests", << >>, "", "", << >>, << >>)

\* HTTPException(429, 'Too many requests', headers={'Retry-After': str(retry_after)})
Http429(retry_after) ==
    Response(429, "Too many requests", << >>, "", "", <<retry_after>>, << >>)
Http404 == Response(404, "No data available", << >>, "", "", << >>, << >>)
\* a slip in the 502: a fixed detail without the symbol and the error
Http502_generic(symbol, exc) == Response(502, "Failed to fetch data", << >>, "", "", << >>, << >>)

\* HTTPException(502, f'Failed to fetch data for {symbol}: {exc}')
Http502(symbol, exc) == Response(502, "Failed to fetch data for", symbol, exc, "", << >>, << >>)

(* --------------------------- symbol normalizing ------------------------ *)
\* what a call gives: the value it returns, or the exception it raises
Returns(value) == [raised |-> "", value |-> value]
Raises(exc) == [raised |-> exc, value |-> << >>]

\* the short codes of commodities: mapping in normalize_symbol
CommodityCodes ==
    { <<<<"G", "O", "L", "D">>, <<"G", "C", "=", "F">>>>,
      <<<<"G", "C">>, <<"G", "C", "=", "F">>>>,
      <<<<"C", "L">>, <<"C", "L", "=", "F">>>>,
      <<<<"O", "I", "L">>, <<"C", "L", "=", "F">>>>,
      <<<<"S", "I">>, <<"S", "I", "=", "F">>>>,
      <<<<"S", "I", "L", "V", "E", "R">>, <<"S", "I", "=", "F">>>> }

\* a slip in normalize_symbol: a Commodities symbol gets '=F' appended whether
\* or not it is a short code or has the suffix
normalize_symbol_appending(asset_type, ticker) ==
    IF ticker = << >> \/ Strip(ticker) = << >>
    THEN Raises("ValueError")
    ELSE Returns(Upper(Strip(ticker)) \o <<"=", "F">>)

\* fetcher.normalize_symbol
normalize_symbol(asset_type, ticker) ==
    IF ticker = << >> \/ Strip(ticker) = << >>
    THEN Raises("ValueError")
    ELSE
    LET symbol == Upper(Strip(ticker))
        kind == Lower(asset_type)
    IN  IF StartsWith(kind, <<"f", "o", "r", "e">>)
        THEN LET s == ReplaceChar(symbol, "/", << >>)
             IN  Returns(IF ~EndsWith(s, <<"=", "X">>) THEN s \o <<"=", "X">> ELSE s)
        ELSE IF StartsWith(kind, <<"c", "o", "m", "m", "o", "d">>)
                /\ \E m \in CommodityCodes : m[1] = symbol
        THEN Returns((CHOOSE m \in CommodityCodes : m[1] = symbol)[2])
        ELSE IF StartsWith(kind, <<"c", "o", "m", "m", "o", "d">>)
                /\ ~EndsWith(symbol, <<"=", "F">>)
        THEN Returns(symbol \o <<"=", "F">>)
        ELSE IF StartsWith(kind, <<"c", "r", "y", "p", "t", "o">>) /\ Contains(ticker, <<"/">>)
        THEN LET k == FirstIndex(ticker, "/")
                 base == SubSeq(ticker, 1, k - 1)
                 quote == SubSeq(ticker, k + 1, Len(ticker))
             IN  IF Contains(quote, <<"/">>)
                 THEN Raises("ValueError")
                 ELSE Returns(Upper(base) \o <<"-">> \o Upper(quote))
        ELSE IF StartsWith(kind, <<"c", "r", "y", "p", "t", "o">>)
                /\ ~Contains(symbol, <<"-">>)
        THEN Returns(symbol \o <<"-", "U", "S", "D">>)
        ELSE Returns(symbol)

(* ------------------------ the web client's header --------------------- *)
\* chr(): the character of a code point (the inverse of Ord on the characters
\* of credentials)
Chr(n) ==
    CASE n = 58 -> ":"
      [] n = 112 -> "p"
      [] n = 117 -> "u"
      [] n = 120 -> "x"
      [] OTHER -> "e_acute"

\* str.encode('utf-8'): one byte for an ASCII character, two for U+00E9
RECURSIVE EncodeUtf8(_)
EncodeUtf8(s) ==
    IF s = << >> THEN << >>
    ELSE (IF IsAscii(Head(s)) THEN <<Ord(Head(s))>>
          ELSE <<192 + (Ord(Head(s)) \div 64), 128 + (Ord(Head(s)) % 64)>>)
         \o EncodeUtf8(Tail(s))

\* bytes.decode('utf-8'): UnicodeDecodeError (ok = FALSE) on a byte sequence
\* that is not UTF-8
RECURSIVE DecodeUtf8(_)
DecodeUtf8(bytes) ==
    IF bytes = << >> THEN [ok |-> TRUE, text |-> << >>]
    ELSE IF bytes[1] < 128
    THEN LET rest == DecodeUtf8(Tail(bytes))
         IN  [ok |-> rest.ok, text |-> <<Chr(bytes[1])>> \o rest.text]
    ELSE IF bytes[1] \in 194..223 /\ Len(bytes) > 1 /\ bytes[2] \in 128..191
    THEN LET rest == DecodeUtf8(Tail(Tail(bytes)))
         IN  [ok |-> rest.ok, text |-> <<Chr((bytes[1] - 192) * 64 + (bytes[2] - 128))>> \o rest.text]
    ELSE [ok |-> FALSE, text |-> << >>]

\* the bytes btoa() encodes: a JavaScript binary string, one byte per character
\* (code points up to 255)
Latin1(s) == [i \in 1..Len(s) |-> Ord(s[i])]

\* a base64 text is the sequence of its 6-bit digits (0..63 for 'A'..'/'),
\* B64Pad for '='
B64Pad == 64

\* base64.b64encode / btoa: three bytes give four digits, a rest of one or two
\* bytes is padded
RECURSIVE B64Encode(_)
B64Encode(bytes) ==
    IF bytes = << >> THEN << >>
    ELSE IF Len(bytes) = 1
    THEN LET n == bytes[1] * 16
         IN  <<n \div 64, n % 64, B64Pad, B64Pad>>
    ELSE IF Len(bytes) = 2
    THEN LET n == (bytes[1] * 256 + bytes[2]) * 4
         IN  <<n \div 4096, (n \div 64) % 64, n % 64, B64Pad>>
    ELSE LET n == bytes[1] * 65536 + bytes[2] * 256 + bytes[3]
         IN  <<n \div 262144, (n \div 4096) % 64, (n \div 64) % 64, n % 64>>
             \o B64Encode(SubSeq(bytes, 4, Len(bytes)))

\* base64.b64decode: binascii.Error (ok = FALSE) when the padding is wrong
RECURSIVE B64Decode(_)
B64Decode(token) ==
    IF token = << >> THEN [ok |-> TRUE, bytes |-> << >>]
    ELSE IF Len(token) < 4 \/ token[1] = B64Pad \/ token[2] = B64Pad
    THEN [ok |-> FALSE, bytes |-> << >>]
    ELSE IF token[3] = B64Pad
    THEN [ok |-> Len(token) = 4 /\ token[4] = B64Pad,
          bytes |-> <<(token[1] * 64 + token[2]) \div 16>>]
    ELSE IF token[4] = B64Pad
    THEN LET n == (token[1] * 4096 + token[2] * 64 + token[3]) \div 4
         IN  [ok |-> Len(token) = 4, bytes |-> <<n \div 256, n % 256>>]
    ELSE LET n == token[1] * 262144 + token[2] * 4096 + token[3] * 64 + token[4]
             rest == B64Decode(SubSeq(token, 5, Len(token)))
         IN  [ok |-> rest.ok,
              bytes |-> <<n \div 65536, (n \div 256) % 256, n % 256>> \o rest.bytes]

\* the value of an Authorization header: the text before the first space and
\* the base64 text after it; '' is the empty scheme with no token
Authorization(scheme, token) == [scheme |-> scheme, token |-> token]

\* build_basic_auth_header: '' when either part is empty; in the browser
\* (PyScript) js.btoa of 'username:password', in plain Python (the import of js
\* fails) base64 of its UTF-8 bytes
build_basic_auth_header(pyscript, username, password) ==
    IF username = << >> \/ password = << >>
    THEN Authorization("", << >>)
    ELSE IF pyscript
    THEN Authorization("Basic", B64Encode(Latin1(username \o <<":">> \o password)))
    ELSE Authorization("Basic", B64Encode(EncodeUtf8(username \o <<":">> \o password)))

\* _verify_basic, what it makes of the header value: token =
\* auth.split(' ', 1)[1], base64.b64decode(token).decode('utf-8')
ParseAuthorization(auth) ==
    LET raw == B64Decode(auth.token)
        decoded == IF raw.ok THEN DecodeUtf8(raw.bytes) ELSE [ok |-> FALSE, text |-> << >>]
    IN  Header(auth.scheme, auth.scheme # "" /\ decoded.ok,
               IF auth.scheme # "" /\ decoded.ok THEN decoded.text ELSE << >>)

(* ------------------------------- state -------------------------------- *)
VARIABLES
    env,         \* the deployment (environment variables, installed packages) and its clients
    clock,       \* time.time()
    rl_state,    \* _RATE_LIMIT_STATE: ip -> admitted timestamps
    rl_lock,     \* _RL_LOCK: 0 or the thread holding it
    cache_lock,  \* _cache_lock: 0 or the thread holding it
    cache_dir,   \* files in _CACHE_DIR: name -> [content, mtime]
    data_dir,    \* .csv files saved directly in fetcher.DATA_DIR: name -> [content, mtime]
    th,          \* per worker thread: the request it serves and its local variables
    call         \* a call of one of the helper functions outside the proxy, or NoCall

vars == <<env, clock, rl_state, rl_lock, cache_lock, cache_dir, data_dir, th, call>>

\* the worker threads of the deployment
Threads == DOMAIN th

\* no helper function is being called
NoCall == [fn |-> "", pc |-> ""]

Hosts == {"", "10.0.0.1"}
IPs == {ClientIp(h) : h \in Hosts}

Query(symbol, start, end, period, interval, bust_cache) ==
    [symbol |-> symbol, start |-> start, end |-> end, period |-> period,
     interval |-> interval, bust_cache |-> bust_cache]

File(content, mtime) == [content |-> content, mtime |-> mtime]

\* a thread between requests
Idle ==
    [pc |-> "idle", hdr |-> NoHeader, host |-> "",
     req |-> Query(<< >>, << >>, << >>, << >>, << >>, FALSE),
     user |-> << >>, now |-> 0, ts_list |-> << >>, cache_path |-> << >>, mtime |-> 0,
     provider |-> "", exc |-> "", csv_text |-> << >>, candidate |-> << >>, calls |-> 0,
     source |-> "", resp |-> NoResponse]

\* the request ends with response resp, produced by stage source
Finish(t, source, resp) == [t EXCEPT !.pc = "done", !.source = source, !.resp = resp]

KeyOf(q) == _cache_filename(q.symbol, q.start, q.end, q.period, q.interval)

(* ------------------------------ actions ------------------------------- *)
\* a request arrives at thread r: GET /api/download with a query, from a client
\* host, with an Authorization header
Receive(r) ==
    /\ th[r].pc = "idle"
    /\ \E h \in env.headers, host \in env.hosts, q \in env.queries :
          th' = [th EXCEPT ![r] = [Idle EXCEPT !.pc = "auth", !.hdr = h, !.host = host, !.req = q]]
    /\ UNCHANGED <<call, env, clock, rl_state, rl_lock, cache_lock, cache_dir, data_dir>>

\* a slip in health: the route is declared with Depends(_verify_basic)
Health_gated(r) ==
    /\ th[r].pc = "idle"
    /\ env.health
    /\ \E h \in env.headers, host \in env.hosts :
          LET v == _verify_basic(env.auth_user, env.auth_pass, h)
          IN  th' = [th EXCEPT ![r] =
                       Finish([Idle EXCEPT !.hdr = h, !.host = host], "health",
                              IF v.kind = "user" THEN HealthOk ELSE v.resp)]
    /\ UNCHANGED <<call, env, clock, rl_state, rl_lock, cache_lock, cache_dir, data_dir>>

\* GET /api/health arrives at thread r, from a client host, with an
\* Authorization header: health() has no dependencies and returns {'status': 'ok'}
Health(r) ==
    /\ th[r].pc = "idle"
    /\ env.health
    /\ \E h \in env.headers, host \in env.hosts :
          th' = [th EXCEPT ![r] =
                   Finish([Idle EXCEPT !.hdr = h, !.host = host], "health", HealthOk)]
    /\ UNCHANGED <<call, env, clock, rl_state, rl_lock, cache_lock, cache_dir, data_dir>>

\* a slip in the order of the gates: a request that authentication rejects has
\* already taken a slot of the rate limiter
Verify_counted(r) ==
    /\ th[r].pc = "auth"
    /\ LET v == _verify_basic(env.auth_user, env.auth_pass, th[r].hdr)
           ip == ClientIp(th[r].host)
       IN  /\ th' = [th EXCEPT ![r] =
                       IF v.kind = "user"
                       THEN [@ EXCEPT !.pc = "rl_now", !.user = v.user]
                       ELSE Finish(@, "auth", v.resp)]
           /\ rl_state' = IF v.kind = "user" THEN rl_state
                          ELSE [rl_state EXCEPT ![ip] = Append(@, clock)]
    /\ UNCHANGED <<call, env, clock, rl_lock, cache_lock, cache_dir, data_dir>>

\* Depends(_verify_basic)
Verify(r) ==
    /\ th[r].pc = "auth"
    /\ LET v == _verify_basic(env.auth_user, env.auth_pass, th[r].hdr)
       IN  th' = [th EXCEPT ![r] =
                    IF v.kind = "user"
                    THEN [@ EXCEPT !.pc = "rl_now", !.user = v.user]
                    ELSE Finish(@, "auth", v.resp)]
    /\ UNCHANGED <<call, env, clock, rl_state, rl_lock, cache_lock, cache_dir, data_dir>>

\* _rate_limit_check up to the lock: now = time.time().  The headers are not
\* read again after _verify_basic, so the model drops them here.
RLNow(r) ==
    /\ th[r].pc = "rl_now"
    /\ th' = [th EXCEPT ![r] = [@ EXCEPT !.pc = "rl_lock", !.now = clock, !.hdr = NoHeader]]
    /\ UNCHANGED <<call, env, clock, rl_state, rl_lock, cache_lock, cache_dir, data_dir>>

\* a slip in _rate_limit_check: the list is read and pruned without _RL_LOCK
RLEnter_unlocked(r) ==
    /\ th[r].pc = "rl_lock"
    /\ th' = [th EXCEPT ![r] =
                [@ EXCEPT !.pc = "rl_check",
                          !.ts_list = Prune(rl_state[ClientIp(th[r].host)], th[r].now,
                                            env.rate_window)]]
    /\ UNCHANGED <<call, env, clock, rl_state, rl_lock, cache_lock, cache_dir, data_dir>>

\* with _RL_LOCK: ts_list = _RATE_LIMIT_STATE.get(ip, []), pruned
RLEnter(r) ==
    /\ th[r].pc = "rl_lock"
    /\ rl_lock = 0
    /\ rl_lock' = r
    /\ th' = [th EXCEPT ![r] =
                [@ EXCEPT !.pc = "rl_check",
                          !.ts_list = Prune(rl_state[ClientIp(th[r].host)], th[r].now,
                                            env.rate_window)]]
    /\ UNCHANGED <<call, env, clock, rl_state, cache_lock, cache_dir, data_dir>>

\* a slip in _rate_limit_check: the attempt is appended and stored before the
\* check, so rejected attempts are recorded too
RLDecide_recording(r) ==
    /\ th[r].pc = "rl_check"
    /\ rl_lock' = IF rl_lock = r THEN 0 ELSE rl_lock
    /\ rl_state' = [rl_state EXCEPT ![ClientIp(th[r].host)] = Append(th[r].ts_list, th[r].now)]
    /\ IF Len(th[r].ts_list) >= env.rate_max
       THEN th' = [th EXCEPT ![r] =
                     Finish(@, "rate", Http429(RetryAfter(@.ts_list, @.now, env.rate_window)))]
       ELSE th' = [th EXCEPT ![r] =
                     [@ EXCEPT !.pc = "cache_exists", !.ts_list = << >>, !.now = 0,
                               !.cache_path = KeyOf(th[r].req)]]
    /\ UNCHANGED <<call, env, clock, cache_lock, cache_dir, data_dir>>

\* the check, then raise 429 or append and store; leaving the with block
\* releases the lock on either path
RLDecide(r) ==
    /\ th[r].pc = "rl_check"
    /\ rl_lock' = IF rl_lock = r THEN 0 ELSE rl_lock
    /\ IF Len(th[r].ts_list) >= env.rate_max
       THEN /\ th' = [th EXCEPT ![r] =
                        Finish(@, "rate", Http429(RetryAfter(@.ts_list, @.now, env.rate_window)))]
            /\ UNCHANGED rl_state
       ELSE /\ rl_state' = [rl_state EXCEPT ![ClientIp(th[r].host)] =
                               Append(th[r].ts_list, th[r].now)]
            /\ th' = [th EXCEPT ![r] =
                        [@ EXCEPT !.pc = "cache_exists", !.ts_list = << >>, !.now = 0,
                                  !.cache_path = KeyOf(th[r].req)]]
    /\ UNCHANGED <<call, env, clock, cache_lock, cache_dir, data_dir>>

\* a slip in the lookup: bust_cache is not looked at
CacheExists_nobust(r) ==
    /\ th[r].pc = "cache_exists"
    /\ th' = [th EXCEPT ![r] =
                [@ EXCEPT !.pc = IF th[r].cache_path \in DOMAIN cache_dir
                                 THEN "cache_mtime" ELSE "fetch"]]
    /\ UNCHANGED <<call, env, clock, rl_state, rl_lock, cache_lock, cache_dir, data_dir>>

\* download: cache_path = _cache_filename(...); not bust_cache and os.path.exists
CacheExists(r) ==
    /\ th[r].pc = "cache_exists"
    /\ th' = [th EXCEPT ![r] =
                [@ EXCEPT !.pc = IF ~th[r].req.bust_cache /\ th[r].cache_path \in DOMAIN cache_dir
                                 THEN "cache_mtime" ELSE "fetch"]]
    /\ UNCHANGED <<call, env, clock, rl_state, rl_lock, cache_lock, cache_dir, data_dir>>

\* mtime = os.path.getmtime(cache_path)
CacheMtime(r) ==
    /\ th[r].pc = "cache_mtime"
    /\ th' = [th EXCEPT ![r] =
                [@ EXCEPT !.pc = "cache_age", !.mtime = cache_dir[th[r].cache_path].mtime]]
    /\ UNCHANGED <<call, env, clock, rl_state, rl_lock, cache_lock, cache_dir, data_dir>>

\* a slip in the freshness test: age < _CACHE_TTL
CacheAge_exclusive(r) ==
    /\ th[r].pc = "cache_age"
    /\ th' = [th EXCEPT ![r] =
                [@ EXCEPT !.pc = IF clock - th[r].mtime < env.cache_ttl THEN "cache_read" ELSE "fetch",
                          !.mtime = 0]]
    /\ UNCHANGED <<call, env, clock, rl_state, rl_lock, cache_lock, cache_dir, data_dir>>

\* age = time.time() - mtime; age <= _CACHE_TTL
CacheAge(r) ==
    /\ th[r].pc = "cache_age"
    /\ th' = [th EXCEPT ![r] =
                [@ EXCEPT !.pc = IF clock - th[r].mtime <= env.cache_ttl THEN "cache_read" ELSE "fetch",
                          !.mtime = 0]]
    /\ UNCHANGED <<call, env, clock, rl_state, rl_lock, cache_lock, cache_dir, data_dir>>

\* a slip in the hit: serving an entry rewrites it, so its write time moves
CacheRead_touching(r) ==
    /\ th[r].pc = "cache_read"
    /\ th' = [th EXCEPT ![r] = Finish(@, "cache", Http200(ReadText(cache_dir[@.cache_path].content)))]
    /\ cache_dir' = [cache_dir EXCEPT ![th[r].cache_path] = File(@.content, clock)]
    /\ UNCHANGED <<call, env, clock, rl_state, rl_lock, cache_lock, data_dir>>

\* open(cache_path).read() and the 200 response
CacheRead(r) ==
    /\ th[r].pc = "cache_read"
    /\ th' = [th EXCEPT ![r] = Finish(@, "cache", Http200(ReadText(cache_dir[@.cache_path].content)))]
    /\ UNCHANGED <<call, env, clock, rl_state, rl_lock, cache_lock, cache_dir, data_dir>>

\* a slip in download: the upstream call is made while holding _RL_LOCK
FetchCall_locked(r) ==
    /\ th[r].pc = "fetch"
    /\ rl_lock = 0
    /\ rl_lock' = r
    /\ th' = [th EXCEPT ![r] = [@ EXCEPT !.pc = "fetching", !.calls = @ + 1]]
    /\ UNCHANGED <<call, env, clock, rl_state, cache_lock, cache_dir, data_dir>>

\* fetcher.fetch_data(...) is called: the thread blocks in the upstream call
FetchCall(r) ==
    /\ th[r].pc = "fetch"
    /\ th' = [th EXCEPT ![r] = [@ EXCEPT !.pc = "fetching", !.calls = @ + 1]]
    /\ UNCHANGED <<call, env, clock, rl_state, rl_lock, cache_lock, cache_dir, data_dir>>

\* a slip in the call: fetch_data is called with its default save=True and
\* writes <symbol>_<timestamp>.csv into fetcher.DATA_DIR at every successful fetch
FetchReturn_saves(r) ==
    /\ th[r].pc = "fetching"
    /\ \E provider \in env.upstream, v \in env.revisions :
          LET q == th[r].req
              res == fetch_data(env.yf, q.symbol, q.start, q.end, q.period,
                                IF q.interval # << >> THEN q.interval ELSE <<"1", "d">>,
                                provider, v)
              name == SavedName(q.symbol, clock)
          IN  /\ th' = [th EXCEPT ![r] =
                          IF res.raised
                          THEN [@ EXCEPT !.pc = "fb_list", !.provider = provider, !.exc = res.exc]
                          ELSE [@ EXCEPT !.pc = "put_lock", !.provider = provider,
                                         !.csv_text = to_csv(res.df, env.linesep)]]
              /\ data_dir' = IF res.raised THEN data_dir
                             ELSE [n \in DOMAIN data_dir \cup {name} |->
                                     IF n = name THEN File(to_csv(res.df, env.linesep), clock)
                                     ELSE data_dir[n]]
    /\ UNCHANGED <<call, env, clock, rl_state, rl_lock, cache_lock, cache_dir>>

\* fetch_data returns or raises; download's except branch, the empty-table
\* check and df.to_csv()
FetchReturn(r) ==
    /\ th[r].pc = "fetching"
    /\ \E provider \in env.upstream, v \in env.revisions :
          LET q == th[r].req
              res == fetch_data(env.yf, q.symbol, q.start, q.end, q.period,
                                IF q.interval # << >> THEN q.interval ELSE <<"1", "d">>,
                                provider, v)
          IN  th' = [th EXCEPT ![r] =
                       IF res.raised
                       THEN [@ EXCEPT !.pc = "fb_list", !.provider = provider, !.exc = res.exc]
                       ELSE IF res.df = << >>
                       THEN Finish([@ EXCEPT !.provider = provider], "fetch", Http404)
                       ELSE [@ EXCEPT !.pc = "put_lock", !.provider = provider,
                                      !.csv_text = to_csv(res.df, env.linesep)]]
    /\ UNCHANGED <<call, env, clock, rl_state, rl_lock, cache_lock, cache_dir, data_dir>>

\* a slip in the write-back: the text is written to cache_path itself
TmpOf_inplace(path) == path

\* tmp_path = cache_path + '.tmp'
TmpOf(path) == path \o DotTmp

\* a slip in the write-back: the temp file is opened without _cache_lock
PutOpen_unlocked(r) ==
    /\ th[r].pc = "put_lock"
    /\ cache_dir' = [n \in DOMAIN cache_dir \cup {TmpOf(th[r].cache_path)} |->
                       IF n = TmpOf(th[r].cache_path) THEN File(<< >>, clock)
                       ELSE cache_dir[n]]
    /\ th' = [th EXCEPT ![r] = [@ EXCEPT !.pc = "put_write"]]
    /\ UNCHANGED <<call, env, clock, rl_state, rl_lock, cache_lock, data_dir>>

\* with _cache_lock: os.makedirs, open(tmp_path, 'w').  A failure is swallowed
\* by the except around the block and the fetched CSV is returned.
PutOpen(r) ==
    /\ th[r].pc = "put_lock"
    /\ cache_lock = 0
    /\ \E ok \in {TRUE} \cup env.io_fails :
          IF ok
          THEN /\ cache_lock' = r
               /\ cache_dir' = [n \in DOMAIN cache_dir \cup {TmpOf(th[r].cache_path)} |->
                                  IF n = TmpOf(th[r].cache_path) THEN File(<< >>, clock)
                                  ELSE cache_dir[n]]
               /\ th' = [th EXCEPT ![r] = [@ EXCEPT !.pc = "put_write"]]
          ELSE /\ th' = [th EXCEPT ![r] = Finish(@, "fetch", Http200(@.csv_text))]
               /\ UNCHANGED <<cache_lock, cache_dir>>
    /\ UNCHANGED <<call, env, clock, rl_state, rl_lock, data_dir>>

\* a slip in the write-back: no except around the block, a failed write ends
\* the request with 500
PutWrite_raises(r) ==
    /\ th[r].pc = "put_write"
    /\ \E ok \in {TRUE} \cup env.io_fails :
          LET tmp == TmpOf(th[r].cache_path)
              data == WriteText(th[r].csv_text, env.linesep)
          IN  IF ok
              THEN /\ cache_dir' = [cache_dir EXCEPT ![tmp] = File(data, clock)]
                   /\ th' = [th EXCEPT ![r] = [@ EXCEPT !.pc = "put_replace"]]
                   /\ UNCHANGED cache_lock
              ELSE /\ cache_dir' = [cache_dir EXCEPT ![tmp] =
                                      File(SubSeq(data, 1, Len(data) - 1), clock)]
                   /\ cache_lock' = IF cache_lock = r THEN 0 ELSE cache_lock
                   /\ th' = [th EXCEPT ![r] = Finish(@, "fetch", Http500)]
    /\ UNCHANGED <<call, env, clock, rl_state, rl_lock, data_dir>>

\* fh.write(csv_text) and the close: the whole text, or on failure a part of it
PutWrite(r) ==
    /\ th[r].pc = "put_write"
    /\ \E ok \in {TRUE} \cup env.io_fails :
          LET tmp == TmpOf(th[r].cache_path)
              data == WriteText(th[r].csv_text, env.linesep)
          IN  IF ok
              THEN /\ cache_dir' = [cache_dir EXCEPT ![tmp] = File(data, clock)]
                   /\ th' = [th EXCEPT ![r] = [@ EXCEPT !.pc = "put_replace"]]
                   /\ UNCHANGED cache_lock
              ELSE /\ cache_dir' = [cache_dir EXCEPT ![tmp] =
                                      File(SubSeq(data, 1, Len(data) - 1), clock)]
                   /\ cache_lock' = IF cache_lock = r THEN 0 ELSE cache_lock
                   /\ th' = [th EXCEPT ![r] = Finish(@, "fetch", Http200(@.csv_text))]
    /\ UNCHANGED <<call, env, clock, rl_state, rl_lock, data_dir>>

\* a slip in the write-back: an entry that exists keeps the time of its first write
PutReplace_firstwrite(r) ==
    /\ th[r].pc = "put_replace"
    /\ LET tmp == TmpOf(th[r].cache_path)
           path == th[r].cache_path
       IN  cache_dir' = [n \in (DOMAIN cache_dir \ {tmp}) \cup {path} |->
                           IF n # path THEN cache_dir[n]
                           ELSE IF path \in DOMAIN cache_dir
                           THEN File(cache_dir[tmp].content, cache_dir[path].mtime)
                           ELSE cache_dir[tmp]]
    /\ cache_lock' = IF cache_lock = r THEN 0 ELSE cache_lock
    /\ th' = [th EXCEPT ![r] = Finish(@, "fetch", Http200(@.csv_text))]
    /\ UNCHANGED <<call, env, clock, rl_state, rl_lock, data_dir>>

\* os.replace(tmp_path, cache_path), the lock released, the 200 response
PutReplace(r) ==
    /\ th[r].pc = "put_replace"
    /\ \E ok \in {TRUE} \cup env.io_fails :
          LET tmp == TmpOf(th[r].cache_path)
          IN  IF ok
              THEN cache_dir' = [n \in (DOMAIN cache_dir \ {tmp}) \cup {th[r].cache_path} |->
                                   IF n = th[r].cache_path THEN cache_dir[tmp] ELSE cache_dir[n]]
              ELSE UNCHANGED cache_dir
    /\ cache_lock' = IF cache_lock = r THEN 0 ELSE cache_lock
    /\ th' = [th EXCEPT ![r] = Finish(@, "fetch", Http200(@.csv_text))]
    /\ UNCHANGED <<call, env, clock, rl_state, rl_lock, data_dir>>

\* os.listdir(fetcher.DATA_DIR): the saved files, and the cache's files when
\* _CACHE_DIR is that directory (by default it is the subdirectory 'cache',
\* whose files listdir does not return)
ListDataDir == DOMAIN data_dir \cup (IF env.cache_in_data THEN DOMAIN cache_dir ELSE {})

ReadDataDir(name) == IF name \in DOMAIN data_dir THEN data_dir[name] ELSE cache_dir[name]

\* a slip in the search: the symbol is compared as it is written
FallbackList_exact(r) ==
    /\ th[r].pc = "fb_list"
    /\ LET files == {f \in ListDataDir : EndsWith(f, DotCsv) /\ Contains(f, th[r].req.symbol)}
       IN  th' = [th EXCEPT ![r] =
                    IF files # {}
                    THEN [@ EXCEPT !.pc = "fb_read", !.candidate = LastSorted(files)]
                    ELSE Finish(@, "fallback", Http502(@.req.symbol, @.exc))]
    /\ UNCHANGED <<call, env, clock, rl_state, rl_lock, cache_lock, cache_dir, data_dir>>

\* the except branch of download: list the data dir, keep the .csv names
\* containing the symbol, take the last of sorted(files)
FallbackList(r) ==
    /\ th[r].pc = "fb_list"
    /\ LET files == {f \in ListDataDir :
                        EndsWith(f, DotCsv) /\ Contains(Lower(f), Lower(th[r].req.symbol))}
       IN  th' = [th EXCEPT ![r] =
                    IF files # {}
                    THEN [@ EXCEPT !.pc = "fb_read", !.candidate = LastSorted(files)]
                    ELSE Finish(@, "fallback", Http502(@.req.symbol, @.exc))]
    /\ UNCHANGED <<call, env, clock, rl_state, rl_lock, cache_lock, cache_dir, data_dir>>

\* a slip in the fallback: only the snapshot of the request's own key is served
FallbackRead_exactkey(r) ==
    /\ th[r].pc = "fb_read"
    /\ \E ok \in {TRUE} \cup env.io_fails :
          th' = [th EXCEPT ![r] =
                   IF ok /\ th[r].candidate = th[r].cache_path
                   THEN Finish(@, "fallback", Http200(ReadText(ReadDataDir(@.candidate).content)))
                   ELSE Finish(@, "fallback", Http502(@.req.symbol, @.exc))]
    /\ UNCHANGED <<call, env, clock, rl_state, rl_lock, cache_lock, cache_dir, data_dir>>

\* open(candidate).read(): 200 with its text; an exception is swallowed and 502 raised
FallbackRead(r) ==
    /\ th[r].pc = "fb_read"
    /\ \E ok \in {TRUE} \cup env.io_fails :
          th' = [th EXCEPT ![r] =
                   IF ok
                   THEN Finish(@, "fallback", Http200(ReadText(ReadDataDir(@.candidate).content)))
                   ELSE Finish(@, "fallback", Http502(@.req.symbol, @.exc))]
    /\ UNCHANGED <<call, env, clock, rl_state, rl_lock, cache_lock, cache_dir, data_dir>>

\* the response is sent; the thread is free for the next request
Done(r) ==
    /\ th[r].pc = "done"
    /\ th' = [th EXCEPT ![r] = Idle]
    /\ UNCHANGED <<call, env, clock, rl_state, rl_lock, cache_lock, cache_dir, data_dir>>

\* time passes
Tick ==
    /\ clock < env.horizon
    /\ clock' = clock + 1
    /\ UNCHANGED <<call, env, rl_state, rl_lock, cache_lock, cache_dir, data_dir, th>>

\* the desktop side calls fetcher.fetch_data(symbol, save=True): a file
\* <symbol>_<timestamp>.csv appears in fetcher.DATA_DIR (df.to_csv(filepath)
\* writes its lines as they are, ended by os.linesep)
SaveData ==
    /\ Cardinality(DOMAIN data_dir) < MaxSaved
    /\ \E symbol \in env.saves :
          LET name == SavedName(symbol, clock)
              res == fetch_data(env.yf, symbol, << >>, << >>, << >>, <<"1", "d">>, "ok", 1)
          IN  /\ ~res.raised
              /\ name \notin DOMAIN data_dir
              /\ data_dir' = [n \in DOMAIN data_dir \cup {name} |->
                                IF n = name THEN File(to_csv(res.df, env.linesep), clock)
                                ELSE data_dir[n]]
    /\ UNCHANGED <<call, env, clock, rl_state, rl_lock, cache_lock, cache_dir, th>>

(* --------------------- deployments and workloads ---------------------- *)
\* NonAscii stands for one character outside ASCII
NonAscii == "e_acute"
UserU == <<"u">>
PassP == <<"p">>
Cred(username, password) == username \o <<":">> \o password

Headers ==
    { NoHeader,
      Header("Bearer", TRUE, Cred(UserU, PassP)),
      Header("Basic", FALSE, << >>),
      Header("Basic", TRUE, UserU \o PassP),
      Header("Basic", TRUE, Cred(UserU, PassP)),
      Header("basic", TRUE, Cred(UserU, PassP)),
      Header("Basic", TRUE, Cred(<<"x">>, PassP)),
      Header("Basic", TRUE, Cred(UserU, <<"x">>)),
      Header("Basic", TRUE, Cred(<<NonAscii>>, PassP)),
      Header("Basic", TRUE, Cred(UserU, <<NonAscii>>)) }

SymA == <<"A">>
SymAB == <<"a", "b">>
SymSlashed == <<"A", "/", "B">>
SymJoined == <<"A", "B">>
OneMonth == <<"1", "m", "o">>
OneDay == <<"1", "d">>
QA(bust) == Query(SymA, << >>, << >>, OneMonth, << >>, bust)
QAB(bust) == Query(SymAB, << >>, << >>, OneMonth, << >>, bust)

\* The deployment: the secret pair (TRADINGUI_API_BASIC_USER / _PASS, << >> when
\* unset), whether TRADINGUI_API_CACHE_DIR is fetcher.DATA_DIR, whether yfinance
\* is installed, TRADINGUI_API_RATE_LIMIT_MAX / _WINDOW, TRADINGUI_API_CACHE_TTL,
\* os.linesep of the platform.
\* Its surroundings: the headers, client hosts and queries of the requests it
\* gets, whether they call /api/health, what the provider answers, whether the
\* disk may fail, which symbols the desktop side saves, how many worker threads
\* serve requests and for how many ticks it runs.
BaseWorld ==
    [auth_user |-> << >>, auth_pass |-> << >>, cache_in_data |-> FALSE, yf |-> TRUE,
     rate_max |-> 2, rate_window |-> 2, cache_ttl |-> 1,
     headers |-> {NoHeader}, hosts |-> {"10.0.0.1"}, queries |-> {QA(FALSE)}, health |-> FALSE,
     upstream |-> {"error"}, revisions |-> {1}, io_fails |-> {}, saves |-> {},
     linesep |-> Posix, threads |-> NThreads, horizon |-> 0]

\* authentication: every setting of the secret pair, every header; concurrent
\* requests where the pair is configured
AuthWorlds ==
    { [BaseWorld EXCEPT !.auth_user = u, !.auth_pass = p, !.headers = Headers,
                        !.threads = IF u # << >> /\ p # << >> THEN NThreads ELSE NThreads - 1] :
        u \in {<< >>, UserU}, p \in {<< >>, PassP} }

\* rate limiting as in test_rate_limit_blocks (max 2): concurrent requests of
\* one client address while time passes the window, and of two addresses; the
\* limiter in front of a cache that fills
RateWorlds ==
    { [BaseWorld EXCEPT !.rate_window = 1, !.horizon = MaxClock - 1],
      [BaseWorld EXCEPT !.hosts = Hosts],
      [BaseWorld EXCEPT !.upstream = {"ok"}, !.threads = NThreads - 1] }

\* caching: concurrent fetches and forced refreshes of one key; one key while
\* time passes the TTL; forced refreshes on a disk that may fail; a deployment
\* on Windows. A window of 0 keeps the limiter out of the way
CacheWorlds ==
    { [BaseWorld EXCEPT !.rate_window = 0, !.queries = {QA(FALSE), QA(TRUE)},
                        !.upstream = {"ok"}, !.revisions = {1, 2}],
      [BaseWorld EXCEPT !.rate_window = 0, !.upstream = {"ok", "error"},
                        !.threads = NThreads - 1, !.horizon = MaxClock - 1],
      [BaseWorld EXCEPT !.rate_window = 0, !.queries = {QA(TRUE)},
                        !.upstream = {"ok"}, !.revisions = {1, 2}, !.io_fails = {FALSE},
                        !.threads = NThreads - 1],
      [BaseWorld EXCEPT !.rate_window = 0, !.upstream = {"ok", "error"},
                        !.linesep = Windows, !.cache_in_data = TRUE,
                        !.saves = {SymA}] }

\* fallback: an upstream that fails, returns nothing or works, files saved in the
\* data directory, the cache inside that directory or (the default) below it
FallbackWorlds ==
    { [BaseWorld EXCEPT !.rate_window = 0, !.cache_in_data = TRUE,
                        !.queries = {QA(FALSE), QA(TRUE)},
                        !.upstream = {"ok", "error", "empty"},
                        !.saves = {SymA, SymAB}, !.threads = NThreads - 1],
      [BaseWorld EXCEPT !.rate_window = 0, !.upstream = {"error", "empty"},
                        !.saves = {SymA, SymAB}, !.threads = NThreads - 1, !.horizon = 1],
      [BaseWorld EXCEPT !.rate_window = 0, !.cache_in_data = TRUE,
                        !.queries = {QA(FALSE), QAB(TRUE)}, !.upstream = {"ok", "error"}],
      [BaseWorld EXCEPT !.rate_window = 0,
                        !.queries = {QA(FALSE), QAB(TRUE)}, !.upstream = {"ok", "error"},
                        !.threads = NThreads - 1],
      [BaseWorld EXCEPT !.rate_window = 0, !.queries = {QA(TRUE)},
                        !.io_fails = {FALSE}, !.saves = {SymA}],
      [BaseWorld EXCEPT !.rate_window = 0, !.yf = FALSE, !.upstream = {"ok"}] }

\* cache keys: requests that differ in the symbol only ('A/B' and 'AB'), in the
\* interval only (absent and '1d'), and in end and interval
KeyWorlds ==
    { [BaseWorld EXCEPT !.rate_window = 0, !.upstream = {"ok"}, !.threads = NThreads - 1,
                        !.queries = {Query(SymSlashed, << >>, << >>, OneMonth, << >>, FALSE),
                                     Query(SymJoined, << >>, << >>, OneMonth, << >>, FALSE)}],
      [BaseWorld EXCEPT !.rate_window = 0, !.upstream = {"ok"}, !.threads = NThreads - 1,
                        !.queries = {QA(FALSE),
                                     Query(SymA, << >>, << >>, OneMonth, OneDay, FALSE),
                                     Query(SymA, << >>, OneDay, OneMonth, << >>, FALSE)}] }

\* health checks: a deployment with the secret pair configured and a limit of
\* one request per window, whose clients (with and without the credential) call
\* /api/health next to /api/download
HealthWorlds ==
    { [BaseWorld EXCEPT !.auth_user = UserU, !.auth_pass = PassP, !.rate_max = 1,
                        !.headers = {NoHeader, Header("Basic", TRUE, Cred(UserU, PassP))},
                        !.upstream = {"ok"}, !.health = TRUE] }

Worlds == AuthWorlds \cup RateWorlds \cup CacheWorlds \cup FallbackWorlds \cup KeyWorlds \cup HealthWorlds

(* --------------------------- specification ---------------------------- *)
Init ==
    /\ env \in Worlds
    /\ clock = 0
    /\ rl_state = [ip \in IPs |-> << >>]
    /\ rl_lock = 0
    /\ cache_lock = 0
    /\ cache_dir = << >>
    /\ data_dir = << >>
    /\ th = [r \in 1..env.threads |-> Idle]
    /\ call = NoCall

Next ==
    \/ \E r \in Threads : Receive(r)
    \/ \E r \in Threads : Health(r)
    \/ \E r \in Threads : Verify(r)
    \/ \E r \in Threads : RLNow(r)
    \/ \E r \in Threads : RLEnter(r)
    \/ \E r \in Threads : RLDecide(r)
    \/ \E r \in Threads : CacheExists(r)
    \/ \E r \in Threads : CacheMtime(r)
    \/ \E r \in Threads : CacheAge(r)
    \/ \E r \in Threads : CacheRead(r)
    \/ \E r \in Threads : FetchCall(r)
    \/ \E r \in Threads : FetchReturn(r)
    \/ \E r \in Threads : PutOpen(r)
    \/ \E r \in Threads : PutWrite(r)
    \/ \E r \in Threads : PutReplace(r)
    \/ \E r \in Threads : FallbackList(r)
    \/ \E r \in Threads : FallbackRead(r)
    \/ \E r \in Threads : Done(r)
    \/ Tick
    \/ SaveData

Spec == Init /\ [][Next]_vars

\* a step of the worker thread r inside the proxy's own code: every step of a
\* request but its arrival and the return of the upstream call
Step(r) ==
    \/ Verify(r) \/ RLNow(r) \/ RLEnter(r) \/ RLDecide(r)
    \/ CacheExists(r) \/ CacheMtime(r) \/ CacheAge(r) \/ CacheRead(r)
    \/ FetchCall(r)
    \/ PutOpen(r) \/ PutWrite(r) \/ PutReplace(r)
    \/ FallbackList(r) \/ FallbackRead(r)
    \/ Done(r)

\* The proxy as scheduled: a worker thread that can take a step of the proxy's
\* code takes it, and a thread that waits for a lock that is released again and
\* again gets it. Nothing obliges a client to send a request, time to reach the
\* horizon or the upstream call to return: fetch_data passes no timeout to
\* yf.download and download sets none around fetch_data.
LiveSpec == Spec /\ \A r \in 1..NThreads : SF_vars(r \in Threads /\ Step(r))

(* ------------------------------ claims -------------------------------- *)
\* the secret pair is configured
Configured == env.auth_user # << >> /\ env.auth_pass # << >>

\* the header is a Basic credential that decodes to username:password
IsCredential(h) == LowerScheme(h.scheme) = "basic" /\ h.decodes /\ FirstIndex(h.text, ":") > 0
UsernameOf(h) == SubSeq(h.text, 1, FirstIndex(h.text, ":") - 1)
PasswordOf(h) == SubSeq(h.text, FirstIndex(h.text, ":") + 1, Len(h.text))
IsAsciiStr(x) == \A i \in 1..Len(x) : IsAscii(x[i])

\* the request of thread r got past authentication / was ended by it
PastAuth(r) == th[r].pc \notin {"idle", "auth"} /\ th[r].source # "auth"
EndedByAuth(r) == th[r].pc = "done" /\ th[r].source = "auth"

\* C8: authentication is enforced if and only if both a username and a password
\* are configured. With the pair not configured (neither set, or only one set)
\* no request is ended by authentication, whatever its header, and its identity
\* is 'anonymous'; with the pair configured no request passes as anonymous and
\* a request without a credential is ended with 401.
C8_AuthIffPairConfigured ==
    \A r \in Threads :
        /\ (~Configured /\ th[r].pc \notin {"idle", "auth"})
              => (PastAuth(r) /\ th[r].user = Anonymous)
        /\ (Configured /\ PastAuth(r)) => th[r].user # Anonymous
        /\ (Configured /\ th[r].pc = "rl_now") => th[r].hdr.scheme # ""

\* C8 witness: only the username is configured and a request with a credential
\* for another user has passed as anonymous
C8_Witness ==
    /\ env.auth_user # << >>
    /\ env.auth_pass = << >>
    /\ \E r \in Threads :
          /\ th[r].pc = "rl_now"
          /\ th[r].hdr = Header("Basic", TRUE, Cred(<<"x">>, PassP))
          /\ th[r].user = Anonymous

\* C9 (as claimed): with the pair configured a request passes authentication if
\* and only if its Basic credential equals the pair, and every other request is
\* ended with 401, the WWW-Authenticate challenge and no table data.
C9_AdmittedIffCredentialMatches ==
    Configured =>
        \A r \in Threads :
            LET h == th[r].hdr
                matches == /\ IsCredential(h)
                           /\ UsernameOf(h) = env.auth_user
                           /\ PasswordOf(h) = env.auth_pass
            IN  /\ th[r].pc = "rl_now" => matches
                /\ EndedByAuth(r) =>
                      /\ ~matches
                      /\ th[r].resp.status = 401
                      /\ th[r].resp.headers.www_authenticate = "Basic"
                      /\ th[r].resp.body = << >>

\* the three credentials C10 compares (in ASCII)
NoCredential(h) == h.scheme = ""
WrongUsername(h) ==
    /\ IsCredential(h) /\ IsAsciiStr(h.text)
    /\ UsernameOf(h) # env.auth_user /\ PasswordOf(h) = env.auth_pass
WrongPassword(h) ==
    /\ IsCredential(h) /\ IsAsciiStr(h.text)
    /\ UsernameOf(h) = env.auth_user /\ PasswordOf(h) # env.auth_pass

\* C10 (as claimed): two requests that differ only in the credential - no
\* credential, a wrong username, a wrong password - get the identical response
\* (status code, detail, headers).
C10_RejectionsIdentical ==
    Configured =>
        \A r1, r2 \in Threads :
            ( /\ EndedByAuth(r1) /\ EndedByAuth(r2)
              /\ NoCredential(th[r1].hdr) \/ WrongUsername(th[r1].hdr) \/ WrongPassword(th[r1].hdr)
              /\ NoCredential(th[r2].hdr) \/ WrongUsername(th[r2].hdr) \/ WrongPassword(th[r2].hdr) )
            => th[r1].resp = th[r2].resp

\* C10 (amended): every 401 of authentication has the same status, the same
\* headers (WWW-Authenticate: Basic) and no body; a wrong username and a wrong
\* password get the same detail, 'Invalid authentication credentials', so the
\* response does not tell which field was wrong; a missing credential gets the
\* detail 'Not authenticated'.
C10_RejectionsAlikeButForMissing ==
    \A r1, r2 \in Threads :
        ( /\ EndedByAuth(r1) /\ th[r1].resp.status = 401
          /\ EndedByAuth(r2) /\ th[r2].resp.status = 401 )
        => /\ th[r1].resp.headers = th[r2].resp.headers
           /\ th[r1].resp.headers.www_authenticate = "Basic"
           /\ th[r1].resp.body = << >>
           /\ NoCredential(th[r1].hdr) => th[r1].resp.detail.msg = "Not authenticated"
           /\ ( /\ WrongUsername(th[r1].hdr) \/ WrongPassword(th[r1].hdr)
                /\ WrongUsername(th[r2].hdr) \/ WrongPassword(th[r2].hdr) )
              => /\ th[r1].resp = th[r2].resp
                 /\ th[r1].resp.detail.msg = "Invalid authentication credentials"

\* C10 witness: one request ended for a wrong username, another for a wrong password
C10_Witness ==
    \E r1, r2 \in Threads :
        /\ EndedByAuth(r1) /\ WrongUsername(th[r1].hdr) /\ th[r1].resp.status = 401
        /\ EndedByAuth(r2) /\ WrongPassword(th[r2].hdr) /\ th[r2].resp.status = 401

\* C1: prune+check+append is one atomic unit for concurrent admission checks:
\* at most one request is between reading the list and storing it; the list a
\* request decides on is the pruned list as stored at that moment, so a request
\* admitted into the last slot is seen by the next one; and no identity's stored
\* sequence holds more than _RATE_LIMIT_MAX entries.
C1_AdmissionAtomic ==
    /\ \A r1, r2 \in Threads :
          (th[r1].pc = "rl_check" /\ th[r2].pc = "rl_check") => r1 = r2
    /\ \A r \in Threads :
          th[r].pc = "rl_check" =>
              th[r].ts_list = Prune(rl_state[ClientIp(th[r].host)], th[r].now, env.rate_window)
    /\ \A ip \in IPs : Len(rl_state[ip]) <= env.rate_max

\* C1 witness: one slot remains for an identity, one request of that identity is
\* deciding and another one of the same identity waits for the lock
C1_Witness ==
    \E r1, r2 \in Threads :
        /\ r1 # r2
        /\ th[r1].host = th[r2].host
        /\ th[r1].pc = "rl_check"
        /\ Len(th[r1].ts_list) = env.rate_max - 1
        /\ th[r2].pc = "rl_lock"

\* the decision of thread r's admission check happens in this step
Decides(r) == th[r].pc = "rl_check" /\ th'[r].pc # "rl_check"

\* C2: when _RATE_LIMIT_MAX admitted requests of the identity lie within the
\* window, the next request is rejected with 429; when more than
\* _RATE_LIMIT_WINDOW seconds have passed since every stored admission, the
\* request is admitted again and recorded.
C2_RejectedThenAdmittedAgain ==
    [][ \A r \in Threads :
          LET ip == ClientIp(th[r].host)
              stored == rl_state[ip]
              recent == {i \in 1..Len(stored) : stored[i] > clock - env.rate_window}
          IN  Decides(r) =>
                /\ Cardinality(recent) >= env.rate_max
                      => (th'[r].pc = "done" /\ th'[r].resp.status = 429)
                /\ (\A i \in 1..Len(stored) : th[r].now - stored[i] > env.rate_window)
                      => (th'[r].pc = "cache_exists" /\ rl_state'[ip] = <<th[r].now>>) ]_vars

\* C2 witness: a request was rejected with 429, the window has passed since, and
\* a later request of the same identity has been admitted
C2_Witness ==
    \E r1, r2 \in Threads :
        /\ th[r1].host = th[r2].host
        /\ th[r1].pc = "done" /\ th[r1].resp.status = 429
        /\ th[r2].pc = "cache_exists"
        /\ rl_state[ClientIp(th[r2].host)] = <<clock>>
        /\ clock - th[r1].now > env.rate_window
        /\ env.rate_window > 0

\* thread r takes the step that leaves stage pc
Leaves(r, pc) == th[r].pc = pc /\ th'[r].pc # pc

FetchedCsv(q, v) ==
    to_csv(fetch_data(TRUE, q.symbol, q.start, q.end, q.period,
                      IF q.interval # << >> THEN q.interval ELSE <<"1", "d">>, "ok", v).df,
           env.linesep)

\* what a complete write of csv_text leaves in the file
OnDisk(csv_text) == WriteText(csv_text, env.linesep)

\* the complete file contents a Put for cache file name can have written
CompletePuts(name) ==
    {OnDisk(FetchedCsv(q, v)) : q \in {x \in env.queries : KeyOf(x) = name}, v \in env.revisions}

\* C4: Put is atomic for readers: whatever the interleaving of writers and
\* readers of a key, the file at the key's path holds the complete text of one
\* Put for that key, and so does the body of every cache hit.
C4_ReadersSeeCompletePut ==
    /\ \A name \in DOMAIN cache_dir :
          EndsWith(name, DotCsv) => cache_dir[name].content \in CompletePuts(name)
    /\ \A r \in Threads :
          (th[r].pc = "done" /\ th[r].source = "cache")
              => th[r].resp.body \in {ReadText(data) : data \in CompletePuts(th[r].cache_path)}

\* C4 witness: a reader was served one complete revision of a key while a
\* writer holds the lock with another revision written to the temp file and not
\* yet moved over the entry
C4_Witness ==
    \E r1, r2 \in Threads :
        /\ th[r1].pc = "put_replace"
        /\ th[r2].pc = "done" /\ th[r2].source = "cache"
        /\ th[r1].cache_path = th[r2].cache_path
        /\ th[r2].resp.body = ReadText(cache_dir[th[r2].cache_path].content)
        /\ cache_dir[th[r2].cache_path].content # OnDisk(th[r1].csv_text)
        /\ cache_dir[TmpOf(th[r1].cache_path)].content = OnDisk(th[r1].csv_text)

\* the .csv names in a set of names that contain the symbol, case-insensitively
Matching(names, symbol) ==
    {f \in names : EndsWith(f, DotCsv) /\ Contains(Lower(f), Lower(symbol))}

\* C5 (as claimed): when the upstream fetch has failed and the cache holds a
\* snapshot whose file name contains the requested symbol, the fallback finds a
\* candidate (and answers 200 with it) instead of answering 502.
C5_FallbackServesCachedSnapshot ==
    [][ \A r \in Threads :
          (Leaves(r, "fb_list") /\ Matching(DOMAIN cache_dir, th[r].req.symbol) # {})
              => (th'[r].pc = "fb_read" /\ th'[r].resp.status # 502) ]_vars

\* C5 (amended): when the upstream fetch has failed and fetcher.DATA_DIR lists a
\* .csv file whose name contains the requested symbol - a file saved there, or
\* a cache entry when _CACHE_DIR is that directory - the fallback reads the
\* lexicographically last such file and answers 200 with its content unless the
\* read fails; a cache entry in a separate cache directory is not found, and
\* without a listed match the answer is 502.
C5_FallbackServesDataDirSnapshot ==
    [][ \A r \in Threads :
          LET listed == DOMAIN data_dir \cup (IF env.cache_in_data THEN DOMAIN cache_dir ELSE {})
              found == Matching(listed, th[r].req.symbol)
          IN  /\ (Leaves(r, "fb_list") /\ found # {})
                    => /\ th'[r].pc = "fb_read"
                       /\ th'[r].candidate \in found
                       /\ \A g \in found : g = th'[r].candidate \/ StrLess(g, th'[r].candidate)
              /\ (Leaves(r, "fb_list") /\ found = {})
                    => (th'[r].pc = "done" /\ th'[r].resp.status = 502)
              /\ Leaves(r, "fb_read")
                    => \/ th'[r].resp = Http200(ReadText((IF th[r].candidate \in DOMAIN data_dir
                                                          THEN data_dir
                                                          ELSE cache_dir)[th[r].candidate].content))
                       \/ (th'[r].resp.status = 502 /\ env.io_fails # {}) ]_vars

\* C5 witness: the cache directory is the data directory, the upstream fetch
\* failed and the request was answered 200 with a cache entry naming the symbol
C5_Witness ==
    \E r \in Threads :
        /\ env.cache_in_data
        /\ th[r].pc = "done" /\ th[r].source = "fallback" /\ th[r].resp.status = 200
        /\ th[r].exc # ""
        /\ th[r].candidate \in DOMAIN cache_dir
        /\ th[r].resp.body = ReadText(cache_dir[th[r].candidate].content)
        /\ Matching(DOMAIN data_dir, th[r].req.symbol) # {}

\* C6: when the upstream fetch raised and no saved snapshot naming the symbol is
\* found, or reading the candidate fails, the request ends with 502 whose detail
\* carries the symbol and the upstream error message; a request whose upstream
\* fetch raised never ends with 404, and with 200 only from a candidate read.
C6_NoFallbackEnds502 ==
    [][ \A r \in Threads :
          /\ (Leaves(r, "fb_list") /\ Matching(ListDataDir, th[r].req.symbol) = {})
                => /\ th'[r].pc = "done"
                   /\ th'[r].resp.status = 502
          /\ (Leaves(r, "fb_list") \/ Leaves(r, "fb_read"))
                => /\ th[r].exc # ""
                   /\ th'[r].pc = "done"
                         => \/ /\ th'[r].resp.status = 502
                               /\ th'[r].resp.detail.symbol = th[r].req.symbol
                               /\ th'[r].resp.detail.exc = th[r].exc
                               /\ th'[r].resp.body = << >>
                            \/ /\ th'[r].resp.status = 200
                               /\ th[r].pc = "fb_read" ]_vars

\* C6 witness: a candidate existed, reading it failed and the request ended with 502
C6_Witness ==
    \E r \in Threads :
        /\ th[r].pc = "done" /\ th[r].source = "fallback"
        /\ th[r].candidate # << >>
        /\ th[r].resp = Http502(th[r].req.symbol, "network unreachable")

\* C7 (as claimed): when the provider answers with an empty table the request
\* ends with 404 'No data available' and never enters the degraded fallback.
C7_EmptyTableEnds404 ==
    \A r \in Threads :
        th[r].provider = "empty" =>
            (th[r].pc = "done" /\ th[r].source = "fetch" /\ th[r].resp = Http404)

(* ------------------------- gates and their order ----------------------- *)
\* the stages of _rate_limit_check, and the stages of download's body
RLStages == {"rl_now", "rl_lock", "rl_check"}
BehindGates ==
    {"cache_exists", "cache_mtime", "cache_age", "cache_read", "fetch", "fetching",
     "put_lock", "put_write", "put_replace", "fb_list", "fb_read"}

\* C11: authentication runs before rate limiting, which runs before any cache
\* or upstream access: a request enters the rate limiter only from a passed
\* authentication and enters download's body only from an admission that was
\* recorded; the step that rejects a request in authentication leaves the
\* rate-limiter state and the cache as they are, and the rejected request has
\* computed no cache path, read no entry and made no upstream call.
C11_GatesInOrder ==
    [][ \A r \in Threads :
          /\ (th'[r].pc \in RLStages /\ th[r].pc \notin RLStages)
                => /\ th[r].pc = "auth"
                   /\ _verify_basic(env.auth_user, env.auth_pass, th[r].hdr).kind = "user"
          /\ (th'[r].pc \in BehindGates /\ th[r].pc \notin BehindGates)
                => /\ th[r].pc = "rl_check"
                   /\ Len(th[r].ts_list) < env.rate_max
                   /\ rl_state'[ClientIp(th[r].host)] = Append(th[r].ts_list, th[r].now)
          /\ (Leaves(r, "auth") /\ th'[r].pc = "done")
                => /\ th'[r].source = "auth"
                   /\ rl_state' = rl_state
                   /\ cache_dir' = cache_dir
                   /\ th'[r].calls = 0
                   /\ th'[r].cache_path = << >>
                   /\ th'[r].csv_text = << >>
          /\ (th[r].pc = "done" /\ th[r].source = "auth") => th'[r].pc \in {"done", "idle"} ]_vars

\* C11 witness: one request was rejected with 401 while another one of the same
\* client address was admitted, and the limiter holds the one admission only
C11_Witness ==
    \E r1, r2 \in Threads :
        /\ EndedByAuth(r1) /\ th[r1].resp.status = 401
        /\ th[r2].pc \in BehindGates
        /\ th[r1].host = th[r2].host
        /\ Len(rl_state[ClientIp(th[r1].host)]) = 1

\* C12: a request that the rate limiter rejects ends with 429 and a Retry-After
\* header and has no other effect: the rejecting step leaves the limiter state,
\* the cache and the data directory as they are, the request has computed no
\* cache path, made no upstream call and chosen no fallback candidate, and
\* nothing more happens for it.
C12_RateLimitedEnds429 ==
    [][ \A r \in Threads :
          /\ (Leaves(r, "rl_check") /\ Len(th[r].ts_list) >= env.rate_max)
                => /\ th'[r].pc = "done"
                   /\ th'[r].source = "rate"
                   /\ th'[r].resp.status = 429
                   /\ th'[r].resp.headers.retry_after # << >>
                   /\ th'[r].resp.body = << >>
                   /\ rl_state' = rl_state
                   /\ cache_dir' = cache_dir
                   /\ data_dir' = data_dir
                   /\ th'[r].calls = 0
                   /\ th'[r].cache_path = << >>
                   /\ th'[r].candidate = << >>
          /\ (th[r].pc = "done" /\ th[r].source = "rate") => th'[r].pc \in {"done", "idle"} ]_vars

\* C12 witness: a request was rejected with 429 while a fresh entry for its key
\* lies in the cache
C12_Witness ==
    \E r \in Threads :
        /\ th[r].pc = "done" /\ th[r].source = "rate" /\ th[r].resp.status = 429
        /\ KeyOf(th[r].req) \in DOMAIN cache_dir
        /\ clock - cache_dir[KeyOf(th[r].req)].mtime <= env.cache_ttl

(* --------------------------- forced refresh ---------------------------- *)
\* thread r has completed a fetch with 200; forced says which kind of request
FetchDone(r, forced) ==
    /\ th[r].pc = "done" /\ th[r].source = "fetch" /\ th[r].resp.status = 200
    /\ th[r].req.bust_cache = forced

C14_FreshnessInclusiveFromLastWrite ==
    [][ \A r \in Threads :
          /\ Leaves(r, "cache_mtime") => th'[r].mtime = cache_dir[th[r].cache_path].mtime
          /\ (Leaves(r, "cache_age") /\ clock <= th[r].mtime + env.cache_ttl)
                => th'[r].pc = "cache_read"
          /\ (Leaves(r, "cache_age") /\ clock >= th[r].mtime + env.cache_ttl + 1)
                => th'[r].pc = "fetch"
          /\ (Leaves(r, "put_write") /\ th'[r].pc = "put_replace")
                => cache_dir'[TmpOf(th[r].cache_path)] = File(OnDisk(th[r].csv_text), clock)
          /\ (Leaves(r, "put_replace") /\ cache_dir' # cache_dir)
                => cache_dir'[th[r].cache_path] = cache_dir[TmpOf(th[r].cache_path)] ]_vars

\* C14 witness: a plain request found the entry at age TTL + 1, went to the
\* upstream and is about to replace the stale entry with a text written now
C14_Witness ==
    \E r \in Threads :
        /\ th[r].pc = "put_replace" /\ ~th[r].req.bust_cache
        /\ env.cache_ttl > 0
        /\ th[r].cache_path \in DOMAIN cache_dir
        /\ clock = cache_dir[th[r].cache_path].mtime + env.cache_ttl + 1
        /\ cache_dir[TmpOf(th[r].cache_path)] = File(OnDisk(th[r].csv_text), clock)

(* ----------------------------- round trip ------------------------------ *)
\* C15 (as claimed): Put followed by Get yields the same table: the text a
\* reader gets from the entry a Put has just completed is the text that Put's
\* request returned, and a cache hit that reads the entry as a completed
\* request wrote it (no other writer since) returns that request's body.
C15_PutThenGetSameBody ==
    [][ \A r \in Threads :
          /\ (Leaves(r, "put_replace") /\ cache_dir' # cache_dir)
                => ReadText(cache_dir'[th[r].cache_path].content) = th'[r].resp.body
          /\ \A w \in Threads :
                ( /\ Leaves(r, "cache_read")
                  /\ th[w].pc = "done" /\ th[w].source = "fetch" /\ th[w].resp.status = 200
                  /\ th[w].cache_path = th[r].cache_path
                  /\ cache_dir[th[r].cache_path].content = OnDisk(th[w].csv_text) )
                => th'[r].resp.body = th[w].resp.body ]_vars

(* -------------------------- failing write-back ------------------------- *)
\* thread r's step ends its write-back without replacing the entry: the open,
\* the write or the replace failed
PutFails(r) ==
    \/ Leaves(r, "put_lock") /\ th'[r].pc = "done"
    \/ Leaves(r, "put_write") /\ th'[r].pc = "done"
    \/ Leaves(r, "put_replace") /\ TmpOf(th[r].cache_path) \in DOMAIN cache_dir'

\* C16: a failure of the cache write is not visible to the requester and does
\* not corrupt the cache: when the open, the write or the replace fails, the
\* request still ends with 200 and the fetched table, every entry of the cache
\* keeps the content and time it had, and _cache_lock is free again.
C16_WriteFailureHidden ==
    [][ \A r \in Threads :
          PutFails(r) =>
              /\ th'[r].pc = "done"
              /\ th'[r].resp = Http200(th[r].csv_text)
              /\ \A k \in DOMAIN cache_dir :
                    EndsWith(k, DotCsv) => (k \in DOMAIN cache_dir' /\ cache_dir'[k] = cache_dir[k])
              /\ \A k \in DOMAIN cache_dir' : EndsWith(k, DotCsv) => k \in DOMAIN cache_dir
              /\ cache_lock' = 0 ]_vars

\* C16 witness: the write of a forced refresh failed half-way; the request got
\* 200 with the table it fetched and the entry still holds the complete other
\* table written before
C16_Witness ==
    \E r \in Threads :
        /\ th[r].pc = "done" /\ th[r].source = "fetch" /\ th[r].resp = Http200(th[r].csv_text)
        /\ th[r].cache_path \in DOMAIN cache_dir
        /\ cache_dir[th[r].cache_path].content \in CompletePuts(th[r].cache_path)
        /\ cache_dir[th[r].cache_path].content # OnDisk(th[r].csv_text)
        /\ TmpOf(th[r].cache_path) \in DOMAIN cache_dir
        /\ cache_dir[TmpOf(th[r].cache_path)].content # OnDisk(th[r].csv_text)

(* ------------------------------ cache keys ----------------------------- *)
\* the four semantic inputs of a request: symbol, period or else start, end,
\* interval
PeriodOrStart(q) == IF q.period # << >> THEN q.period ELSE q.start
Inputs(q) == <<q.symbol, PeriodOrStart(q), q.end, q.interval>>

\* the number of semantic inputs in which two requests differ
Differences(q1, q2) == Cardinality({i \in 1..4 : Inputs(q1)[i] # Inputs(q2)[i]})

\* thread r has computed the cache key of its request
HasKey(r) == th[r].pc \in BehindGates

\* C17 (as claimed): _cache_filename is deterministic, and changing one of the
\* four semantic inputs while the others stay fixed changes the key: the key a
\* request has computed equals the key of every request with the same inputs
\* and differs from the key of every request that differs in exactly one input.
C17_OneInputChangesKey ==
    \A r \in Threads : \A q \in env.queries :
        HasKey(r) =>
            /\ Differences(th[r].req, q) = 0 => KeyOf(q) = th[r].cache_path
            /\ Differences(th[r].req, q) = 1 => KeyOf(q) # th[r].cache_path

\* the request a table was fetched for, read off a row of a body: symbol,
\* period or else start, end (fetch_data is called with interval or '1d')
FetchedFor(cell) == <<cell.q[1], IF cell.q[4] # << >> THEN cell.q[4] ELSE cell.q[2], cell.q[3]>>

\* C18 (as claimed): two requests have the same cache key if and only if their
\* four semantic inputs match, and so every row of the body of a cache hit was
\* fetched for the symbol, period-or-start and end of the request it answers.
C18_SameKeyIffSameInputs ==
    \A r \in Threads :
        /\ HasKey(r) =>
              \A q \in env.queries :
                  (KeyOf(q) = th[r].cache_path) <=> (Differences(th[r].req, q) = 0)
        /\ (th[r].pc = "done" /\ th[r].source = "cache") =>
              \A i \in 1..Len(th[r].resp.body) :
                  th[r].resp.body[i].row > 0 =>
                      FetchedFor(th[r].resp.body[i]) = SubSeq(Inputs(th[r].req), 1, 3)

(* ------------------------- one snapshot per key ------------------------ *)
\* the snapshot files of the cache directory
Snapshots == {n \in DOMAIN cache_dir : EndsWith(n, DotCsv)}

\* C19: whatever the sequence and interleaving of fetches, the snapshot files
\* of the cache directory are named by the keys of requests, one file per key,
\* and each holds the text of one completed write (overwritten, not appended);
\* a successful write-back leaves the key's file and no temp file; apart from
\* the temp file of a write-back in progress (or of one that failed) the cache
\* directory holds nothing else, and a request writes no other file (fetch_data
\* is called with save=False); an entry is never removed: a key that has a
\* snapshot has one in every later state.
C19_OneSnapshotPerKey ==
    [][ /\ \A n \in Snapshots :
             /\ \E q \in env.queries : n = KeyOf(q)
             /\ cache_dir[n].content \in CompletePuts(n)
        /\ (env.io_fails = {} /\ cache_lock = 0) => DOMAIN cache_dir = Snapshots
        /\ \A n \in Snapshots : n \in DOMAIN cache_dir'
        /\ th' # th => data_dir' = data_dir
        /\ \A r \in Threads :
             (Leaves(r, "put_replace") /\ cache_dir' # cache_dir)
                 => /\ DOMAIN cache_dir' = (DOMAIN cache_dir \ {TmpOf(th[r].cache_path)})
                                              \cup {th[r].cache_path}
                    /\ cache_dir'[th[r].cache_path].content = OnDisk(th[r].csv_text) ]_vars

\* C19 witness: two fetches of one key with different tables have completed
\* their write-backs and the cache directory holds the one file of that key
C19_Witness ==
    \E r1, r2 \in Threads :
        /\ r1 # r2
        /\ th[r1].pc = "done" /\ th[r1].source = "fetch" /\ th[r1].resp.status = 200
        /\ th[r2].pc = "done" /\ th[r2].source = "fetch" /\ th[r2].resp.status = 200
        /\ th[r1].cache_path = th[r2].cache_path
        /\ th[r1].csv_text # th[r2].csv_text
        /\ env.io_fails = {}
        /\ DOMAIN cache_dir = {th[r1].cache_path}
        /\ cache_dir[th[r1].cache_path].content = OnDisk(th[r2].csv_text)

(* --------------------------- exclusive writers ------------------------- *)
\* thread r is between opening the temp file and completing os.replace
Writing(r) == th[r].pc \in {"put_write", "put_replace"}

\* C20: writers are mutually exclusive: at most one request is between opening
\* the temp file and completing os.replace, and it holds _cache_lock; the temp
\* file it works on holds its own text and nobody else's (empty after its open,
\* its full text after its write), and every entry is one writer's full table.
C20_WritersExclusive ==
    /\ \A r1, r2 \in Threads : (Writing(r1) /\ Writing(r2)) => r1 = r2
    /\ \A r \in Threads :
          /\ Writing(r) => cache_lock = r
          /\ th[r].pc = "put_write" => cache_dir[TmpOf(th[r].cache_path)].content = << >>
          /\ th[r].pc = "put_replace"
                => cache_dir[TmpOf(th[r].cache_path)].content = OnDisk(th[r].csv_text)
    /\ \A n \in Snapshots :
          \E q \in env.queries, v \in env.revisions :
              KeyOf(q) = n /\ cache_dir[n].content = OnDisk(FetchedCsv(q, v))

\* C20 witness: one writer has written its table to the temp file while another
\* writer of the same key, with a different table, waits for the lock
C20_Witness ==
    \E r1, r2 \in Threads :
        /\ th[r1].pc = "put_replace"
        /\ th[r2].pc = "put_lock"
        /\ th[r1].cache_path = th[r2].cache_path
        /\ th[r1].csv_text # th[r2].csv_text
        /\ cache_lock = r1

(* ------------------- helper functions outside the proxy ---------------- *)
\* the strings of up to n characters over chars
Strings(chars, n) == UNION {[1..k -> chars] : k \in 0..n}

\* the usernames and passwords typed into the web client
Credentials == Strings({"u", ":", NonAscii}, MaxCred)

\* the web client is about to build the header for a username and a password,
\* in the browser (PyScript) or in plain Python
BuildCalls ==
    { [fn |-> "build_basic_auth_header", pc |-> "call", pyscript |-> js,
       username |-> u, password |-> p, auth |-> Authorization("", << >>), hdr |-> NoHeader] :
        js \in BOOLEAN, u \in Credentials, p \in Credentials }

\* headers['Authorization'] = build_basic_auth_header(user, pwd)
BuildHeader ==
    /\ call.fn = "build_basic_auth_header" /\ call.pc = "call"
    /\ call' = [call EXCEPT !.pc = "sent",
                            !.auth = build_basic_auth_header(call.pyscript, call.username,
                                                             call.password)]
    /\ UNCHANGED <<env, clock, rl_state, rl_lock, cache_lock, cache_dir, data_dir, th>>

\* the server's _verify_basic decodes the header it got
ServerParses ==
    /\ call.fn = "build_basic_auth_header" /\ call.pc = "sent"
    /\ call' = [call EXCEPT !.pc = "parsed", !.hdr = ParseAuthorization(call.auth)]
    /\ UNCHANGED <<env, clock, rl_state, rl_lock, cache_lock, cache_dir, data_dir, th>>

\* the asset types of the GUI
Forex == <<"F", "o", "r", "e", "x">>
Commodities == <<"C", "o", "m", "m", "o", "d", "i", "t", "i", "e", "s">>
Crypto == <<"C", "r", "y", "p", "t", "o">>
Stocks == <<"S", "t", "o", "c", "k", "s">>

\* the tickers typed into the GUI: every short string of letters in both cases,
\* '/', blank, '=', and the tickers of the tests and of the short codes
Tickers ==
    Strings({"g", "C", "/", " ", "=", "X", "F"}, MaxTicker)
        \cup { <<"E", "U", "R", "U", "S", "D">>, <<"E", "U", "R", "/", "U", "S", "D">>,
                <<"G", "O", "L", "D">>, <<"g", "o", "l", "d">>, <<"C", "L">>, <<"o", "i", "l">>,
                <<"S", "I">>, <<"S", "i", "l", "v", "e", "r">>, <<"G", "C", "=", "F">> }

\* the GUI is about to normalize a ticker for an asset type
NormalizeCalls ==
    { [fn |-> "normalize_symbol", pc |-> "call", asset_type |-> a, ticker |-> t,
       first |-> Returns(<< >>), second |-> Returns(<< >>)] :
        a \in {Forex, Commodities, Crypto, Stocks}, t \in Tickers }

\* normalize_symbol(asset_type, ticker)
Normalize ==
    /\ call.fn = "normalize_symbol" /\ call.pc = "call"
    /\ call' = [call EXCEPT !.pc = "returned",
                            !.first = normalize_symbol(call.asset_type, call.ticker)]
    /\ UNCHANGED <<env, clock, rl_state, rl_lock, cache_lock, cache_dir, data_dir, th>>

\* the value it returned is normalized again
NormalizeAgain ==
    /\ call.fn = "normalize_symbol" /\ call.pc = "returned"
    /\ call.first.raised = ""
    /\ call' = [call EXCEPT !.pc = "again",
                            !.second = normalize_symbol(call.asset_type, call.first.value)]
    /\ UNCHANGED <<env, clock, rl_state, rl_lock, cache_lock, cache_dir, data_dir, th>>

HelperInit ==
    /\ env = BaseWorld
    /\ clock = 0
    /\ rl_state = [ip \in IPs |-> << >>]
    /\ rl_lock = 0
    /\ cache_lock = 0
    /\ cache_dir = << >>
    /\ data_dir = << >>
    /\ th = [r \in 1..1 |-> Idle]
    /\ call \in BuildCalls \cup NormalizeCalls

HelperNext ==
    \/ BuildHeader
    \/ ServerParses
    \/ Normalize
    \/ NormalizeAgain

\* the helper functions applied to bounded inputs
HelperSpec == HelperInit /\ [][HelperNext]_vars

(* ------------------------------ cache paths ---------------------------- *)
\* how many directories lie between the root of the file system and _CACHE_DIR
CacheDepth == 2

\* a directory: up levels above _CACHE_DIR, then down the names of down
Place(up, down) == [up |-> up, down |-> down]
CacheDirPlace == Place(0, << >>)
RootPlace == Place(CacheDepth, << >>)

\* the components of a path name, separated by '/'
RECURSIVE SplitPath(_)
SplitPath(s) ==
    LET i == FirstIndex(s, "/")
    IN  IF i = 0 THEN <<s>>
        ELSE <<SubSeq(s, 1, i - 1)>> \o SplitPath(SubSeq(s, i + 1, Len(s)))

\* where the operating system gets from a directory along components: an empty
\* component and '.' stay, '..' goes to the parent (the root is its own
\* parent), a name goes down
RECURSIVE Walk(_, _)
Walk(place, parts) ==
    IF parts = << >> THEN place
    ELSE LET c == Head(parts)
             next == IF c = << >> \/ c = <<".">> THEN place
                     ELSE IF c = <<".", ".">>
                     THEN (IF place.down # << >>
                           THEN Place(place.up, SubSeq(place.down, 1, Len(place.down) - 1))
                           ELSE Place(IF place.up < CacheDepth THEN place.up + 1 ELSE place.up,
                                      << >>))
                     ELSE Place(place.up, Append(place.down, c))
         IN  Walk(next, Tail(parts))

\* os.path.join(_CACHE_DIR, name): a name that starts with '/' replaces the
\* directory
JoinStart(name) == IF name # << >> /\ Head(name) = "/" THEN RootPlace ELSE CacheDirPlace

\* os.path.dirname(cache_path), as components below the start
DirParts(name) == SubSeq(SplitPath(name), 1, Len(SplitPath(name)) - 1)

\* the directory in which the file of cache_path lies
DirOf(name) == Walk(JoinStart(name), DirParts(name))

\* os.makedirs(os.path.dirname(cache_path), exist_ok=True): every directory on
\* the way that is not there is created; _CACHE_DIR and the directories above
\* it exist
MakeDirs(name) ==
    {d \in {Walk(JoinStart(name), SubSeq(DirParts(name), 1, k)) : k \in 1..Len(DirParts(name))} :
        d.down # << >>}

\* the values of a request parameter: up to MaxPieces pieces, each a name, a
\* slash or two dots
ParamPieces == {<<"x">>, <<"/">>, <<".", ".">>}
RECURSIVE Glue(_)
Glue(pieces) == IF pieces = << >> THEN << >> ELSE Head(pieces) \o Glue(Tail(pieces))
ParamValues == {Glue(p) : p \in UNION {[1..k -> ParamPieces] : k \in 0..MaxPieces}}

\* download is about to be called for a request whose period, start, end or
\* interval is any of these values
PathQueries ==
    UNION { { Query(symbol, << >>, << >>, v, << >>, FALSE),
              Query(symbol, v, << >>, << >>, << >>, FALSE),
              Query(symbol, << >>, v, OneMonth, << >>, FALSE),
              Query(symbol, << >>, << >>, OneMonth, v, FALSE) } :
            symbol \in {SymA, SymSlashed}, v \in ParamValues }

PathCalls ==
    { [fn |-> "download", pc |-> "call", req |-> q, cache_path |-> << >>,
       dir |-> CacheDirPlace, made |-> {}] : q \in PathQueries }

\* cache_path = _cache_filename(symbol, start, end, period, interval)
PathName ==
    /\ call.fn = "download" /\ call.pc = "call"
    /\ call' = [call EXCEPT !.pc = "named", !.cache_path = KeyOf(call.req)]
    /\ UNCHANGED <<env, clock, rl_state, rl_lock, cache_lock, cache_dir, data_dir, th>>

\* the write-back: os.makedirs(os.path.dirname(cache_path)), the temp file
\* opened next to cache_path and renamed to it
PathPut ==
    /\ call.fn = "download" /\ call.pc = "named"
    /\ call' = [call EXCEPT !.pc = "written", !.dir = DirOf(call.cache_path),
                            !.made = MakeDirs(call.cache_path)]
    /\ UNCHANGED <<env, clock, rl_state, rl_lock, cache_lock, cache_dir, data_dir, th>>

PathInit ==
    /\ env = BaseWorld
    /\ clock = 0
    /\ rl_state = [ip \in IPs |-> << >>]
    /\ rl_lock = 0
    /\ cache_lock = 0
    /\ cache_dir = << >>
    /\ data_dir = << >>
    /\ th = [r \in 1..1 |-> Idle]
    /\ call \in PathCalls

PathNext ==
    \/ PathName
    \/ PathPut

\* the cache path of download for bounded parameter values
PathSpec == PathInit /\ [][PathNext]_vars

(* ----------------------------- termination ----------------------------- *)
\* C21 (as claimed): every /download request eventually terminates with a
\* response, also when the upstream fetch does not return: a request that a
\* thread serves is eventually done.
C21_EveryRequestTerminates ==
    \A r \in 1..NThreads :
        (r \in Threads /\ th[r].pc # "idle") ~> (r \in Threads /\ th[r].pc = "done")

(* ------------------------------- health -------------------------------- *)
\* thread r's step answers a health check
AnswersHealth(r) == th[r].source # "health" /\ th'[r].source = "health"

\* C22: GET /api/health always answers 200 with status ok: a thread that is free
\* can answer it in every state, whatever the header and the client address;
\* every answer is 200 {'status': 'ok'}, also without a credential while the
\* secret pair is configured and for an address that is over its limit; the step
\* leaves the rate-limiter state, the cache, the data directory and both locks
\* as they are, and nothing more happens for the request.
C22_HealthAlwaysOk ==
    [][ \A r \in Threads :
          /\ (env.health /\ th[r].pc = "idle") => ENABLED Health(r)
          /\ AnswersHealth(r)
                => /\ th[r].pc = "idle"
                   /\ th'[r].pc = "done"
                   /\ th'[r].resp = HealthOk
                   /\ rl_state' = rl_state
                   /\ cache_dir' = cache_dir
                   /\ data_dir' = data_dir
                   /\ rl_lock' = rl_lock
                   /\ cache_lock' = cache_lock
          /\ (th[r].pc = "done" /\ th[r].source = "health") => th'[r].pc \in {"done", "idle"} ]_vars

\* C22 witness: the secret pair is configured, a client address is over its
\* limit (a request of it was just rejected with 429) and the cache holds an
\* entry; a health check from that address without a credential was answered
\* 200 with status ok
C22_Witness ==
    \E r1, r2 \in Threads :
        /\ Configured
        /\ th[r1].pc = "done" /\ th[r1].source = "health" /\ th[r1].resp = HealthOk
        /\ th[r1].hdr = NoHeader
        /\ th[r2].pc = "done" /\ th[r2].source = "rate" /\ th[r2].resp.status = 429
        /\ th[r1].host = th[r2].host
        /\ Len(rl_state[ClientIp(th[r1].host)]) >= env.rate_max
        /\ DOMAIN cache_dir # {}

(* ----------------------------- retry-after ----------------------------- *)
\* the smallest element of a non-empty set of timestamps
Oldest(ts) == CHOOSE t \in ts : \A u \in ts : t <= u

\* the timestamps of an identity's stored sequence that a check at time now
\* keeps
Remaining(ip, now) ==
    {rl_state[ip][i] : i \in {j \in 1..Len(rl_state[ip]) : rl_state[ip][j] > now - env.rate_window}}

\* C23 (as claimed): on every rejected admission the reported Retry-After is
\* W - (now - oldest remaining timestamp of the identity) and lies between 0 and
\* W, for every interleaving of concurrent admission checks.
C23_RetryAfterFromOldest ==
    [][ \A r \in Threads :
          (Leaves(r, "rl_check") /\ th'[r].resp.status = 429)
              => LET retry_after == th'[r].resp.headers.retry_after[1]
                     remaining == Remaining(ClientIp(th[r].host), th[r].now)
                 IN  /\ retry_after = env.rate_window - (th[r].now - Oldest(remaining))
                     /\ 0 <= retry_after
                     /\ retry_after <= env.rate_window ]_vars

(* ------------------------- what the limiter records -------------------- *)
\* C24: only admitted attempts are recorded: the step that rejects a request
\* leaves the stored sequences of all identities as they are (nothing appended,
\* nothing removed), so rejected requests cannot delay the next admission; the
\* step that admits a request stores the identity's kept timestamps followed by
\* exactly one new one, the request's own now; and no other step changes the
\* limiter's state.
C24_OnlyAdmittedRecorded ==
    [][ /\ \A r \in Threads :
             LET ip == ClientIp(th[r].host)
                 kept == Prune(rl_state[ip], th[r].now, env.rate_window)
             IN  /\ (Leaves(r, "rl_check") /\ th'[r].pc = "done")
                       => (th'[r].resp.status = 429 /\ rl_state' = rl_state)
                 /\ (Leaves(r, "rl_check") /\ th'[r].pc # "done")
                       => /\ rl_state'[ip] = Append(kept, th[r].now)
                          /\ Len(rl_state'[ip]) = Len(kept) + 1
                          /\ \A other \in IPs \ {ip} : rl_state'[other] = rl_state[other]
        /\ rl_state' # rl_state
              => \E r \in Threads : Leaves(r, "rl_check") /\ th'[r].pc = "cache_exists" ]_vars

\* C24 witness: two requests of one client address were rejected one after the
\* other and the address's stored sequence still holds just the admitted
\* attempts, _RATE_LIMIT_MAX of them
C24_Witness ==
    \E r1, r2 \in Threads :
        /\ r1 # r2
        /\ th[r1].pc = "done" /\ th[r1].resp.status = 429
        /\ th[r2].pc = "done" /\ th[r2].resp.status = 429
        /\ th[r1].host = th[r2].host
        /\ Len(rl_state[ClientIp(th[r1].host)]) = env.rate_max

(* ------------------------- the client's header ------------------------- *)
\* C25 (as claimed): for every non-empty username u and password p the server's
\* decoding of build_basic_auth_header(u, p) is a credential with exactly the
\* username u and the password p; build_basic_auth_header returns '' when
\* either is empty.
C25_HeaderRoundTrips ==
    (call.fn = "build_basic_auth_header" /\ call.pc \in {"sent", "parsed"}) =>
        IF call.username = << >> \/ call.password = << >>
        THEN call.auth = Authorization("", << >>)
        ELSE /\ call.auth.scheme = "Basic"
             /\ call.pc = "parsed"
                   => /\ IsCredential(call.hdr)
                      /\ UsernameOf(call.hdr) = call.username
                      /\ PasswordOf(call.hdr) = call.password

(* -------------------------- normalized symbols ------------------------- *)
\* a call of normalize_symbol for asset_type has returned or raised
Normalized(asset_type) ==
    call.fn = "normalize_symbol" /\ call.asset_type = asset_type /\ call.pc \in {"returned", "again"}

EqualsX == <<"=", "X">>
EqualsF == <<"=", "F">>

\* C26 (as claimed): for Forex, normalize_symbol returns the upper-cased ticker
\* (surrounding blanks aside) with every '/' removed, with '=X' appended unless
\* it already ends in it; normalizing its own output returns it unchanged; a
\* blank ticker raises ValueError.
C26_ForexNormalForm ==
    Normalized(Forex) =>
        LET bare == ReplaceChar(Upper(Strip(call.ticker)), "/", << >>)
        IN  IF Strip(call.ticker) = << >>
            THEN call.first = Raises("ValueError")
            ELSE /\ call.first = Returns(IF EndsWith(bare, EqualsX) THEN bare ELSE bare \o EqualsX)
                 /\ ~Contains(call.first.value, <<"/">>)
                 /\ EndsWith(call.first.value, EqualsX)
                 /\ call.pc = "again" => call.second = call.first

\* the Commodities short code of a symbol, << >> when it is none
ShortCode(symbol) ==
    IF symbol \in {<<"G", "O", "L", "D">>, <<"G", "C">>} THEN <<"G", "C", "=", "F">>
    ELSE IF symbol \in {<<"C", "L">>, <<"O", "I", "L">>} THEN <<"C", "L", "=", "F">>
    ELSE IF symbol \in {<<"S", "I">>, <<"S", "I", "L", "V", "E", "R">>} THEN <<"S", "I", "=", "F">>
    ELSE << >>

\* C27: for Commodities, normalize_symbol maps the short codes (GOLD, GC to
\* GC=F; CL, OIL to CL=F; SI, SILVER to SI=F), appends '=F' to any other symbol
\* (the upper-cased ticker without surrounding blanks) that does not end in it
\* and returns a symbol that ends in '=F' as it is: every result ends in '=F',
\* and '=F' is never appended to a symbol that has it.
C27_CommoditiesEndInF ==
    (Normalized(Commodities) /\ Strip(call.ticker) # << >>) =>
        LET symbol == Upper(Strip(call.ticker))
            value == call.first.value
        IN  /\ call.first.raised = ""
            /\ EndsWith(value, EqualsF)
            /\ ShortCode(symbol) # << >> => value = ShortCode(symbol)
            /\ (ShortCode(symbol) = << >> /\ ~EndsWith(symbol, EqualsF)) => value = symbol \o EqualsF
            /\ EndsWith(symbol, EqualsF) => value = symbol

\* C27 witness: a short code in lower case was mapped, and a symbol that ends in
\* '=F' came back as it is when normalized again
C27_Witness ==
    /\ Normalized(Commodities)
    /\ call.ticker = <<"g", "o", "l", "d">>
    /\ call.pc = "again"
    /\ call.first = Returns(<<"G", "C", "=", "F">>)
    /\ call.second = Returns(<<"G", "C", "=", "F">>)

(* -------------------------- order of timestamps ------------------------ *)
\* C28 (as claimed): for every interleaving of concurrent admission checks each
\* identity's stored sequence is in non-decreasing order, so that its first
\* element is its oldest timestamp.
C28_StoredSequenceSorted ==
    \A ip \in IPs :
        /\ \A i, j \in 1..Len(rl_state[ip]) : i < j => rl_state[ip][i] <= rl_state[ip][j]
        /\ rl_state[ip] # << >>
              => rl_state[ip][1] = Oldest({rl_state[ip][i] : i \in 1..Len(rl_state[ip])})

(* ---------------------------- prune boundary --------------------------- *)
\* the timestamps of a sequence that are not older than now - W, in order
RECURSIVE NotOlder(_, _, _)
NotOlder(ts_list, now, window) ==
    IF ts_list = << >> THEN << >>
    ELSE (IF Head(ts_list) >= now - window THEN <<Head(ts_list)>> ELSE << >>)
         \o NotOlder(Tail(ts_list), now, window)

\* C29 (as claimed): an admission check at time now prunes exactly the
\* timestamps older than now - W: a timestamp t = now - W is kept and counts
\* against the limit, so the request is rejected when the timestamps not older
\* than now - W number _RATE_LIMIT_MAX or more, and an admitted request stores
\* them followed by its own now.
C29_BoundaryTimestampCounts ==
    [][ \A r \in Threads :
          LET ip == ClientIp(th[r].host)
              counted == NotOlder(rl_state[ip], th[r].now, env.rate_window)
          IN  Leaves(r, "rl_check") =>
                 IF Len(counted) >= env.rate_max
                 THEN th'[r].pc = "done" /\ th'[r].resp.status = 429
                 ELSE rl_state'[ip] = Append(counted, th[r].now) ]_vars

(* --------------------------- separate identities ----------------------- *)
\* the bucket the claim gives a request: "unknown" without an origin address,
\* the address itself otherwise
BucketOf(host) == IF host = "" THEN "unknown" ELSE host

\* C30: an admission check of a request of identity A leaves the stored
\* sequence of every other identity as it was, and no other step changes a
\* stored sequence at all; the request is rejected exactly if A's own stored
\* timestamps inside the window of its now number _RATE_LIMIT_MAX or more, and
\* an admission stores them, followed by now, under A; requests without an
\* origin address share the bucket "unknown", a known address is its own bucket.
C30_IdentitiesIsolated ==
    [][ /\ \A r \in Threads :
             LET A == BucketOf(th[r].host)
                 own == IF A \in DOMAIN rl_state
                        THEN Prune(rl_state[A], th[r].now, env.rate_window) ELSE << >>
             IN  Leaves(r, "rl_check") =>
                    /\ A \in DOMAIN rl_state
                    /\ ClientIp(th[r].host) = A
                    /\ \A B \in DOMAIN rl_state \ {A} : rl_state'[B] = rl_state[B]
                    /\ IF Len(own) >= env.rate_max
                       THEN th'[r].pc = "done" /\ th'[r].resp.status = 429
                                               /\ rl_state'[A] = rl_state[A]
                       ELSE th'[r].pc # "done" /\ rl_state'[A] = Append(own, th[r].now)
        /\ (\A r \in Threads : ~Leaves(r, "rl_check")) => rl_state' = rl_state ]_vars

\* the bucket "unknown" is full and a request without an origin address has
\* been rejected, while the address 10.0.0.1 has one admitted timestamp and
\* room for more
C30_Witness ==
    /\ Len(rl_state["unknown"]) = env.rate_max
    /\ "10.0.0.1" \in DOMAIN rl_state
    /\ Len(rl_state["10.0.0.1"]) = 1
    /\ \E r \in Threads : /\ th[r].pc = "done"
                          /\ th[r].host = ""
                          /\ th[r].resp.status = 429

(* ----------------------------- cache writes ---------------------------- *)
\* the cache entries: the .csv files of the cache directory (a .csv.tmp file is
\* the write-back's scratch file, no request reads it as an entry)
Entries(dir) == {n \in DOMAIN dir : EndsWith(n, DotCsv)}

\* entry n is not the same before and after the step
EntryChanges(n) ==
    \/ (n \in Entries(cache_dir)) # (n \in Entries(cache_dir'))
    \/ n \in Entries(cache_dir) /\ n \in Entries(cache_dir') /\ cache_dir'[n] # cache_dir[n]

\* request r ends in this step with the CSV it fetched from upstream
EndsFetched(r) ==
    /\ th[r].pc # "done" /\ th'[r].pc = "done"
    /\ th'[r].source = "fetch" /\ th'[r].resp.status = 200
    /\ th[r].provider = "ok" /\ th[r].csv_text # << >>
    /\ th'[r].resp.body = th[r].csv_text

\* C31: a cache entry (content or write time) changes only in the step in which
\* a request that fetched a non-empty table from upstream ends with that CSV, it
\* is that request's key's entry and it becomes that CSV as written; so a request that ends
\* as a cache hit, a fallback 200, a 404, a 502, a 401 or a 429 changes no
\* entry, and a successful fetch none but its own key's.
C31_OnlyBackfillWrites ==
    [][ \A n \in Entries(cache_dir) \cup Entries(cache_dir') :
          EntryChanges(n) =>
             \E r \in Threads : /\ EndsFetched(r)
                                /\ n = KeyOf(th[r].req)
                                /\ n \in Entries(cache_dir')
                                /\ cache_dir'[n].content = OnDisk(th[r].csv_text)
                                /\ cache_dir'[n].mtime <= clock
                                /\ \A m \in (Entries(cache_dir) \cup Entries(cache_dir')) \ {n} :
                                      ~EntryChanges(m) ]_vars

\* a request has just ended with the CSV it fetched, its key's entry is in the
\* cache next to the entry of another key
C31_Witness ==
    \E r \in Threads :
        /\ th[r].pc = "done" /\ th[r].source = "fetch" /\ th[r].resp.status = 200
        /\ KeyOf(th[r].req) \in Entries(cache_dir)
        /\ \E m \in Entries(cache_dir) : m # KeyOf(th[r].req)

(* --------------------------- fallback selection ------------------------ *)
\* name f of a snapshot contains the symbol, whatever the case of the letters
NamesSymbol(f, symbol) == EndsWith(f, DotCsv) /\ Contains(Lower(f), Lower(symbol))

\* C32: the fallback selects, among the .csv snapshots it lists whose name
\* contains the requested symbol case-insensitively, the one no other name
\* follows in lexicographic order - whether or not it is the request's own key
\* or fresh - so that two requests for one symbol that search the same files
\* select the same one; the snapshot a fallback returns is the selected one, and
\* its name contains the symbol.
C32_FallbackPicksLastMatch ==
    [][ /\ \A r \in Threads :
             Leaves(r, "fb_list") /\ th'[r].pc = "fb_read" =>
                /\ th'[r].candidate \in ListDataDir
                /\ NamesSymbol(th'[r].candidate, th[r].req.symbol)
                /\ \A f \in ListDataDir :
                      NamesSymbol(f, th[r].req.symbol) => ~StrLess(th'[r].candidate, f)
        /\ \A r \in Threads :
             Leaves(r, "fb_read") /\ th'[r].resp.status = 200 =>
                /\ NamesSymbol(th[r].candidate, th[r].req.symbol)
                /\ th'[r].candidate = th[r].candidate
                /\ th'[r].resp.body = ReadText(ReadDataDir(th[r].candidate).content) ]_vars

\* a fallback returned a snapshot that is not the entry of the request's key,
\* chosen among several snapshots naming the symbol, while a snapshot of the
\* request's own key was there too
C32_Witness ==
    \E r \in Threads :
        /\ th[r].pc = "done" /\ th[r].source = "fallback" /\ th[r].resp.status = 200
        /\ th[r].candidate # KeyOf(th[r].req)
        /\ KeyOf(th[r].req) \in ListDataDir
        /\ Cardinality({f \in ListDataDir : NamesSymbol(f, th[r].req.symbol)}) >= 2
        /\ \A f \in ListDataDir :
              NamesSymbol(f, th[r].req.symbol) => ~StrLess(th[r].candidate, f)

(* -------------------------- reaching the fallback ---------------------- *)
\* request r is in the degraded fallback
InFallback(r) == th[r].pc \in {"fb_list", "fb_read"}

\* the forced-refresh request r, whose upstream fetch failed, ends in this step
ForcedEnds(r) ==
    /\ th[r].req.bust_cache /\ InFallback(r) /\ th[r].exc # ""
    /\ th'[r].pc = "done"

\* C33 (as claimed): a forced-refresh request whose upstream fetch failed ends
\* with 200 if any saved snapshot - in the cache or in the data directory - has
\* a name containing the symbol, and with 502 otherwise.
C33_ForcedRefreshServedIfSnapshot ==
    [][ \A r \in Threads :
          ForcedEnds(r) =>
             IF Matching(DOMAIN cache_dir \cup DOMAIN data_dir, th[r].req.symbol) # {}
             THEN th'[r].resp.status = 200
             ELSE th'[r].resp.status = 502 ]_vars

\* C33 (amended): a request is sent to the upstream only after its lookup missed
\* (no entry at its key), was bypassed (bust_cache) or found the entry older
\* than the TTL, and enters the fallback only from an upstream call that
\* raised; a forced-refresh request whose call raised enters it too, and there
\* the files listed in fetcher.DATA_DIR are searched by name, not by key: it
\* ends with 200 and the selected file's text if a listed .csv name contains
\* the symbol and the file can be read, otherwise with 502.
C33_FallbackOnlyAfterFailedFetch ==
    [][ \A r \in Threads :
          /\ (th[r].pc # "fetch" /\ th'[r].pc = "fetch") =>
                \/ th[r].pc = "cache_exists"
                      /\ (th[r].req.bust_cache \/ KeyOf(th[r].req) \notin DOMAIN cache_dir)
                \/ th[r].pc = "cache_age" /\ clock - th[r].mtime > env.cache_ttl
          /\ (th[r].pc # "fetching" /\ th'[r].pc = "fetching") => th[r].pc = "fetch"
          /\ (~InFallback(r) /\ th'[r].pc = "fb_list") => th[r].pc = "fetching" /\ th'[r].exc # ""
          /\ (th[r].pc # "fb_read" /\ th'[r].pc = "fb_read") => th[r].pc = "fb_list"
          /\ (th'[r].pc = "done" /\ th[r].pc # "done" /\ th'[r].source = "fallback") => InFallback(r)
          /\ (Leaves(r, "fetching") /\ th[r].req.bust_cache /\ th'[r].exc # "")
                => th'[r].pc = "fb_list"
          /\ (Leaves(r, "fb_list") /\ th[r].req.bust_cache) =>
                IF Matching(ListDataDir, th[r].req.symbol) # {}
                THEN th'[r].pc = "fb_read"
                ELSE th'[r].pc = "done" /\ th'[r].resp.status = 502
          /\ (Leaves(r, "fb_read") /\ th[r].req.bust_cache) =>
                \/ th'[r].resp = Http200(ReadText(ReadDataDir(th[r].candidate).content))
                \/ th'[r].resp.status = 502 /\ env.io_fails # {} ]_vars

\* a forced refresh whose upstream call raised was answered 200 by the
\* fallback, with a snapshot that is not the entry of its key
C33_Witness ==
    \E r \in Threads :
        /\ th[r].req.bust_cache
        /\ th[r].pc = "done" /\ th[r].source = "fallback" /\ th[r].resp.status = 200
        /\ th[r].exc # "" /\ th[r].calls > 0
        /\ th[r].candidate # KeyOf(th[r].req)

(* ------------------------------- outcomes ------------------------------ *)
\* C34 (as claimed): a /api/download request ends with one of the statuses 200,
\* 401, 404, 429, 502 and no other, whatever fails on its way (the credential's
\* decoding or comparison, the reads and writes of cache and fallback files).
C34_OutcomesAreTheFive ==
    \A r \in Threads :
        (th[r].pc = "done" /\ th[r].source # "health")
            => th[r].resp.status \in {200, 401, 404, 429, 502}

(* ---------------------------- lock discipline -------------------------- *)
\* thread r is inside the critical section of _RL_LOCK, of _cache_lock
InLimiter(r) == th[r].pc = "rl_check"
InWriteBack(r) == th[r].pc \in {"put_write", "put_replace"}

\* the thread that request r waits for, or 0: the holder of the lock r is about
\* to take
WaitsFor(r) ==
    IF th[r].pc = "rl_lock" THEN rl_lock
    ELSE IF th[r].pc = "put_lock" THEN cache_lock
    ELSE 0

\* C35: a thread holds _RL_LOCK only inside the limiter's critical section and
\* _cache_lock only inside the write-back's, so never both, never during the
\* upstream call or the read of a cache or fallback file, and never after its
\* request has ended (with 429 or otherwise); a request that waits for a lock
\* waits for another thread, which waits for none and can take its next step,
\* and while a request is blocked in the upstream call every other request in
\* the proxy's own code that waits for no lock can take its next step.
C35_LockDiscipline ==
    /\ rl_lock \in Threads \cup {0}
    /\ cache_lock \in Threads \cup {0}
    /\ \A r \in Threads :
          /\ rl_lock = r => InLimiter(r)
          /\ cache_lock = r => InWriteBack(r)
          /\ ~(rl_lock = r /\ cache_lock = r)
          /\ th[r].pc \in {"fetching", "cache_read", "fb_read", "done", "idle"}
                => (rl_lock # r /\ cache_lock # r)
          /\ WaitsFor(r) # 0 =>
                WaitsFor(r) # r /\ WaitsFor(WaitsFor(r)) = 0 /\ ENABLED Step(WaitsFor(r))
          /\ (WaitsFor(r) = 0 /\ th[r].pc \notin {"idle", "fetching"}
                /\ \E r1 \in Threads : th[r1].pc = "fetching")
                => ENABLED Step(r)

\* while one request is blocked in the upstream call, another has been served
\* from the cache and both locks are free
C35_Witness ==
    \E r1, r2 \in Threads :
        /\ th[r1].pc = "fetching"
        /\ th[r2].pc = "done" /\ th[r2].source = "cache" /\ th[r2].resp.status = 200
        /\ rl_lock = 0 /\ cache_lock = 0

(* ------------------------------ cache paths ---------------------------- *)
\* C36 (as claimed): whatever the symbol, start, end, period and interval of a
\* request, the file that download writes (and looks up) lies directly in the
\* cache directory, and the write-back creates no directory.
C36_PathInsideCacheDir ==
    (call.fn = "download" /\ call.pc = "written")
        => (call.dir = CacheDirPlace /\ call.made = {})

====
